---- MODULE Spec2Model ----
(***************************************************************************)
(* The research pipeline of the Agentic Deep Research tool: the planner's  *)
(* post-validation (agents/query_analysis_agent.py), the retrieval retry   *)
(* loop (agents/search_data_collection_agent.py), report generation and    *)
(* validation (agents/orchestration_agent.py) and the pipeline that chains *)
(* them (main.py).                                                         *)
(*                                                                         *)
(* Strings.  A Python str is a sequence of pieces [s, n]: the first n      *)
(* characters of the text s.  A literal of the code is one piece with      *)
(* n = Len(s); a text produced by an external capability is a piece whose  *)
(* s names it and whose n is its length.  Pieces are canonical: the words  *)
(* the code looks for ("@", "429", "References", "REFERENCES") are pieces  *)
(* of their own, and no other piece of the alphabet contains them.         *)
(***************************************************************************)
EXTENDS Integers, Sequences, FiniteSets, TLC

VARIABLES
    pc,               \* position of the single logical task
    caller,           \* "pipeline": research_pipeline runs; "direct": one function is called on its own
    topic,            \* research_pipeline's topic / generate_report's original_query
    raised,           \* the exception that reached the caller: [stage, msg], stage "none" when none
    stages,           \* the stages of research_pipeline that have started
    decompose_calls,  \* number of query_analyst.run calls
    subtasks_result,  \* subtasks_result.data as the decomposition returned it
    prev_subtasks,    \* the argument of the latest validate_subtasks call
    subtasks,         \* research_pipeline's subtasks
    search_terms,     \* research_pipeline's search_terms
    batch_i,          \* research_pipeline's batch loop index i (0-based, as in the code)
    all_findings_lists, \* research_pipeline's all_findings_lists
    queries,          \* parallel_search's argument
    qi,               \* 1-based position of the query parallel_search is processing
    attempt,          \* process_query_with_retry's loop variable
    qlog,             \* what process_query_with_retry did for the current query, in order
    all_results,      \* parallel_search's all_results
    research_data,    \* generate_report's research_data (findings_dict): sequence of [key, val]
    oi,               \* 1-based position of the objective generate_report is processing
    subtask_content,  \* generate_report's subtask_content: sequence of [key, val]
    sources,          \* generate_report's sources
    section_calls,    \* the summarizer.run calls in order: [objective, content, kind, v]
    compose_calls,    \* number of report_agent.run calls
    result_data,      \* what report_agent.run returned (line 135), Unbound before
    call_log,         \* the search_agent.run calls of the batch loop run on its own, in order
    hits,             \* web_search's search_results['items']
    hit_i,            \* 1-based position of the item web_search is processing
    results,          \* web_search's results
    fetched,          \* what fetch_webpage_content did for each item processed: [kind, text]
    main_pc,          \* position of main(), "none" when main does not run
    progress,         \* the show_progress task: "none", "running", "cancelled"
    frame,            \* show_progress's i
    exc,              \* the exception the try block of generate_report raised (a message), if any
    report            \* the ResearchReport in hand: [made, topic, findings, synthesis, sources]

vars == << pc, caller, topic, raised, stages, decompose_calls, subtasks_result,
           prev_subtasks, subtasks, search_terms, batch_i, all_findings_lists,
           queries, qi, attempt, qlog, all_results, research_data, oi,
           subtask_content, sources, section_calls, compose_calls, result_data, exc, report,
           call_log, hits, hit_i, results, fetched, main_pc, progress, frame >>

-----------------------------------------------------------------------------
(* Strings *)

Lit(s) == [s |-> s, n |-> Len(s)]
Blob(id, n) == [s |-> id, n |-> n]

RECURSIVE StrLen(_)
StrLen(str) == IF str = << >> THEN 0 ELSE Head(str).n + StrLen(Tail(str))

\* str.startswith(ch) for a one-piece word ch
StartsWith(str, ch) == Len(str) > 0 /\ str[1].s = ch /\ str[1].n = Len(ch)

\* word in str, for a word that is a piece of its own
HasWord(str, word) == \E i \in 1..Len(str) : str[i].s = word /\ str[i].n = Len(word)

\* sub in str (Python's substring test; the empty string is in every string)
IsSubstr(sub, str) ==
    \E i \in 0..(Len(str) - Len(sub)) : SubSeq(str, i + 1, i + Len(sub)) = sub

\* str[:k]
RECURSIVE StrTake(_, _)
StrTake(str, k) ==
    IF str = << >> \/ k <= 0 THEN << >>
    ELSE IF Head(str).n <= k THEN << Head(str) >> \o StrTake(Tail(str), k - Head(str).n)
    ELSE << [s |-> Head(str).s, n |-> k] >>

\* Concatenation of a sequence of strings
RECURSIVE Flatten(_)
Flatten(strs) == IF strs = << >> THEN << >> ELSE Head(strs) \o Flatten(Tail(strs))

Last(seq) == seq[Len(seq)]

-----------------------------------------------------------------------------
(* Program constants *)

MIN_SUBTASKS == 3
MAX_SUBTASKS == 5
MIN_REPORT_WORDS == 1000
MAX_BATCH_SIZE == 3
max_retries == 5
MinSynthesisLength == 100
MinSourcesItems == 1
MinContentLength == 1
MinSummaryLength == 10
MaxRelevance == 10
ContentCeiling == 10000
PreviewLength == 300

(* Bounds of the model *)

MaxPlanLen == 3      \* longest subtask list given to validate_subtasks on its own
MaxPriority == 3     \* largest priority value a decomposition supplies
MaxQueries == 2      \* longest query list given to parallel_search on its own
MaxObjectives == 2   \* most objectives in a FindingsMap given to generate_report on its own
MaxTerms == 4        \* most search terms given to the batch loop on its own
MaxHits == 2         \* most items in a search response
MaxFrames == 4       \* most iterations of the progress indicator's loop

NoError == [stage |-> "none", msg |-> << >>]
\* A local name that has no value yet
Unbound == << [s |-> "unbound", n |-> 0] >>

\* research_pipeline runs: called on its own, or awaited by main()
InPipeline == caller \in { "pipeline", "main" }

NoReport == [made |-> FALSE, topic |-> << >>, findings |-> << >>,
             synthesis |-> << >>, sources |-> << >>]

-----------------------------------------------------------------------------
(* Planner: validate_subtasks *)

Subtask(o, t, p) == [objective |-> o, search_terms |-> t, priority |-> p]

\* The for loop of validate_subtasks: fill empty search terms, priority = i + 1
\* (i is 0-based in the code, positions are 1-based here).
RenumberKeepsPriority(sts) ==
    [i \in 1..Len(sts) |->
        Subtask(sts[i].objective,
                IF sts[i].search_terms = << >> THEN << sts[i].objective >>
                                               ELSE sts[i].search_terms,
                sts[i].priority)]

RenumberAppendsObjective(sts) ==
    [i \in 1..Len(sts) |->
        Subtask(sts[i].objective, sts[i].search_terms \o << sts[i].objective >>, i)]

Renumber(sts) ==
    [i \in 1..Len(sts) |->
        Subtask(sts[i].objective,
                IF sts[i].search_terms = << >> THEN << sts[i].objective >>
                                               ELSE sts[i].search_terms,
                i)]

\* list.sort(key=priority): stable, ascending
RECURSIVE InsertByPriority(_, _)
InsertByPriority(st, sorted) ==
    IF sorted = << >> THEN << st >>
    ELSE IF Head(sorted).priority <= st.priority
         THEN << Head(sorted) >> \o InsertByPriority(st, Tail(sorted))
         ELSE << st >> \o sorted

RECURSIVE SortByPriority(_)
SortByPriority(sts) ==
    IF sts = << >> THEN << >>
    ELSE InsertByPriority(Last(sts), SortByPriority(SubSeq(sts, 1, Len(sts) - 1)))

validate_subtasks(sts) == SortByPriority(Renumber(sts))

-----------------------------------------------------------------------------
(* Retrieval: parallel_search and process_query_with_retry *)

\* relevance_score is kept in tenths: 1 stands for 0.1
LowRelevance == 1

DataPoint(src, content, summary, score) ==
    [source |-> src, content |-> content, summary |-> summary, relevance_score |-> score]

\* The constraints of schemas/research_report.py on a ResearchDataPoint
\* (relevance_score between 0 and 1, in tenths)
DataPointValid(dp) ==
    /\ StrLen(dp.content) >= MinContentLength
    /\ StrLen(dp.summary) >= MinSummaryLength
    /\ 0 <= dp.relevance_score /\ dp.relevance_score <= MaxRelevance

\* str(e) of the pydantic error raised for a ResearchDataPoint off its schema
DataPointErrorMessage == << Lit("1 validation error for ResearchDataPoint") >>

NoResultsPointErrorSource(query) ==
    DataPoint(<< Lit("https://example.com/error?q=") >> \o query,
              << Lit("No valid results for '") >> \o query \o << Lit("'") >>,
              << Lit("No information available for '") >> \o query \o << Lit("'") >>,
              LowRelevance)

\* The placeholder of lines 276-281 (the capability returned no data point)
NoResultsPoint(query) ==
    DataPoint(<< Lit("https://example.com/search?q=") >> \o query,
              << Lit("No valid results for '") >> \o query \o << Lit("'") >>,
              << Lit("No information available for '") >> \o query \o << Lit("'") >>,
              LowRelevance)

ErrorPointZeroScore(query) ==
    DataPoint(<< Lit("https://example.com/error?q=") >> \o query,
              << Lit("Error during search for '") >> \o query \o << Lit("'") >>,
              << Lit("Search error for '") >> \o query \o << Lit("'") >>,
              0)

\* The placeholder of lines 298-303 (the capability raised)
ErrorPoint(query) ==
    DataPoint(<< Lit("https://example.com/error?q=") >> \o query,
              << Lit("Error during search for '") >> \o query \o << Lit("'") >>,
              << Lit("Search error for '") >> \o query \o << Lit("'") >>,
              LowRelevance)

EnsureDataPointsKeepsEmpty(query, data_points) == data_points

EnsureDataPointsFirstOnly(query, data_points) ==
    IF data_points = << >> THEN << NoResultsPoint(query) >> ELSE << data_points[1] >>

\* "if not data_points: data_points = [placeholder]" (lines 275-281)
EnsureDataPoints(query, data_points) ==
    IF data_points = << >> THEN << NoResultsPoint(query) >> ELSE data_points

\* "429" in error_str
Has429(msg) == HasWord(msg, "429")

ShouldRetryAnyError(msg, a) == a < max_retries

\* The handler sleeps and continues the loop (lines 287-294)
ShouldRetry(msg, a) == Has429(msg) /\ a < max_retries

NextAttemptRepeats(a) == a

\* for attempt in range(max_retries + 1): the next value of the loop variable
NextAttempt(a) == a + 1

Event(e, a, v) == [e |-> e, a |-> a, v |-> v]

\* What the search-and-extract capability (search_agent.run) may do: the data
\* points it returns, and the messages of the exceptions it raises.
PointA == DataPoint(<< Lit("https://a.example/p") >>, << Blob("page a", 400) >>,
                    << Lit("summary of page a") >>, 9)
PointB == DataPoint(<< Lit("https://b.example/q") >>, << Blob("page b", 120) >>,
                    << Lit("summary of page b") >>, 7)
PointAt == DataPoint(<< Lit("@"), Lit("handle") >>, << Blob("post", 40) >>,
                     << Lit("summary of a post") >>, 5)
\* source is a str with no minimum length (schemas/research_report.py line 31)
PointNoSource == DataPoint(<< >>, << Blob("note", 30) >>, << Lit("summary of a note") >>, 3)

\* The pipeline is explored with fewer of them than a function called on its own.
DataChoicesAll ==
    { << PointA >>, << PointAt >>, << PointA, PointB >>, << PointAt, PointA, PointA >> }
DataChoices ==
    IF caller = "pipeline" THEN { << PointA >>, << PointAt >> }
    ELSE IF caller = "main" THEN { << PointA >> }
    ELSE IF caller = "batches" THEN { << PointA, PointB >> }
    ELSE DataChoicesAll
SearchErrors == { << Lit("status_code: "), Lit("429"), Lit(", rate limit exceeded") >>,
                  << Lit("Connection timed out") >> }
\* The batch loop run on its own and the pipeline under main() are explored with
\* throttling of first attempts only
ErrorChoices ==
    IF caller \in { "batches", "main" } /\ attempt > 0 THEN { msg \in SearchErrors : ~Has429(msg) }
    ELSE SearchErrors

\* One search_agent.run call: the query and attempt it was made for, and what
\* it did (kind "return" with the data points, kind "raise" with the message)
Call(query, a, kind, v) == [query |-> query, a |-> a, kind |-> kind, v |-> v]
Logged(log, call) == IF caller = "batches" THEN Append(log, call) ELSE log

\* for query in queries: the next query starts (line 307-308, 243)
PsNextQuery ==
    /\ pc = "ps_loop"
    /\ qi <= Len(queries)
    /\ attempt' = 0
    /\ qlog' = << >>
    /\ pc' = "pq_pace"
    /\ UNCHANGED << caller, topic, raised, stages, decompose_calls, subtasks_result,
                    prev_subtasks, subtasks, search_terms, batch_i, all_findings_lists,
                    queries, qi, all_results, research_data, oi, subtask_content,
                    sources, section_calls, compose_calls, result_data, exc, report, call_log,
                    hits, hit_i, results, fetched, main_pc, progress, frame >>

PaceBaseShrinking(a) == 20 - (a * 3)

\* delay = 2 + (attempt * 3) + random.uniform(0, 2) (line 246), without the
\* jitter; the jitter is below the step of 3, so the delay grows as this does
PaceBase(a) == 2 + (a * 3)

\* The head of "for attempt in range(max_retries + 1)" and the sleep that opens
\* its body: await asyncio.sleep(delay), delay = 2 + attempt * 3 + jitter (lines
\* 243-247).  A loop that runs out ends the function without a return statement:
\* the caller appends None, written << >> here.
PqPace ==
    /\ pc = "pq_pace"
    /\ IF attempt <= max_retries
       THEN /\ qlog' = Append(qlog, Event("pace", attempt, PaceBase(attempt)))
            /\ pc' = "pq_call"
            /\ UNCHANGED all_results
       ELSE /\ all_results' = Append(all_results, << >>)
            /\ pc' = "ps_sleep"
            /\ UNCHANGED qlog
    /\ UNCHANGED << caller, topic, raised, stages, decompose_calls, subtasks_result,
                    prev_subtasks, subtasks, search_terms, batch_i, all_findings_lists,
                    queries, qi, attempt, research_data, oi, subtask_content,
                    sources, section_calls, compose_calls, result_data, exc, report, call_log,
                    hits, hit_i, results, fetched, main_pc, progress, frame >>

\* The handler "except Exception as e" (lines 285-303) for an exception with
\* message msg: back off and retry, or return the error placeholder, which is
\* appended to all_results (line 309).  A placeholder off its schema raises out
\* of the handler.
HandleSearchError(msg) ==
    IF ShouldRetry(msg, attempt)
    THEN /\ pc' = "pq_backoff"
         /\ UNCHANGED << all_results, raised >>
    ELSE IF DataPointValid(ErrorPoint(queries[qi]))
    THEN /\ pc' = "ps_sleep"
         /\ all_results' = Append(all_results, << ErrorPoint(queries[qi]) >>)
         /\ UNCHANGED raised
    ELSE /\ pc' = "raised"
         /\ raised' = [stage |-> "retrieval", msg |-> DataPointErrorMessage]
         /\ UNCHANGED all_results

\* search_agent.run returns (lines 269-283); the result is appended (line 309).
\* A no-results placeholder off its schema raises inside the try block.
PqCallReturns ==
    /\ pc = "pq_call"
    /\ \E data \in DataChoices \cup { << >> } :
          /\ qlog' = qlog \o << Event("call", attempt, << >>), Event("return", attempt, data) >>
          /\ call_log' = Logged(call_log, Call(queries[qi], attempt, "return", data))
          /\ IF data = << >> /\ ~DataPointValid(NoResultsPoint(queries[qi]))
             THEN HandleSearchError(DataPointErrorMessage)
             ELSE /\ all_results' = Append(all_results, EnsureDataPoints(queries[qi], data))
                  /\ pc' = "ps_sleep"
                  /\ UNCHANGED raised
    /\ UNCHANGED << caller, topic, stages, decompose_calls, subtasks_result,
                    prev_subtasks, subtasks, search_terms, batch_i, all_findings_lists,
                    queries, qi, attempt, research_data, oi, subtask_content,
                    sources, section_calls, compose_calls, result_data, exc, report,
                    hits, hit_i, results, fetched, main_pc, progress, frame >>

\* search_agent.run raises (lines 269, 285-303)
PqCallRaises ==
    /\ pc = "pq_call"
    /\ \E msg \in ErrorChoices :
          /\ qlog' = qlog \o << Event("call", attempt, << >>), Event("raise", attempt, msg) >>
          /\ call_log' = Logged(call_log, Call(queries[qi], attempt, "raise", msg))
          /\ HandleSearchError(msg)
    /\ UNCHANGED << caller, topic, stages, decompose_calls, subtasks_result,
                    prev_subtasks, subtasks, search_terms, batch_i, all_findings_lists,
                    queries, qi, attempt, research_data, oi, subtask_content,
                    sources, section_calls, compose_calls, result_data, exc, report,
                    hits, hit_i, results, fetched, main_pc, progress, frame >>

\* await asyncio.sleep(wait_time); continue (lines 293-294)
PqBackoff ==
    /\ pc = "pq_backoff"
    /\ qlog' = Append(qlog, Event("backoff", attempt, << >>))
    /\ attempt' = NextAttempt(attempt)
    /\ pc' = "pq_pace"
    /\ UNCHANGED << caller, topic, raised, stages, decompose_calls, subtasks_result,
                    prev_subtasks, subtasks, search_terms, batch_i, all_findings_lists,
                    queries, qi, all_results, research_data, oi, subtask_content,
                    sources, section_calls, compose_calls, result_data, exc, report, call_log,
                    hits, hit_i, results, fetched, main_pc, progress, frame >>

PsSleepSkipped ==
    /\ pc = "ps_sleep"
    /\ qi' = qi + 1
    /\ pc' = "ps_loop"
    /\ UNCHANGED << caller, topic, raised, stages, decompose_calls, subtasks_result,
                    prev_subtasks, subtasks, search_terms, batch_i, all_findings_lists,
                    queries, attempt, qlog, all_results, research_data, oi, subtask_content,
                    sources, section_calls, compose_calls, result_data, exc, report, call_log,
                    hits, hit_i, results, fetched, main_pc, progress, frame >>

\* await asyncio.sleep(8 + jitter) after each query (line 310)
PsSleep ==
    /\ pc = "ps_sleep"
    /\ qlog' = Append(qlog, Event("inter", attempt, << >>))
    /\ qi' = qi + 1
    /\ pc' = "ps_loop"
    /\ UNCHANGED << caller, topic, raised, stages, decompose_calls, subtasks_result,
                    prev_subtasks, subtasks, search_terms, batch_i, all_findings_lists,
                    queries, attempt, all_results, research_data, oi, subtask_content,
                    sources, section_calls, compose_calls, result_data, exc, report, call_log,
                    hits, hit_i, results, fetched, main_pc, progress, frame >>

ExtendReplaces(lists, batch_findings) == batch_findings

\* all_findings_lists.extend(batch_findings) (main.py line 135)
Extend(lists, batch_findings) == lists \o batch_findings

\* return all_results (line 312): to a direct caller, or into the batch loop of
\* research_pipeline, which extends all_findings_lists (main.py lines 134-135)
PsReturn ==
    /\ pc = "ps_loop"
    /\ qi > Len(queries)
    /\ IF InPipeline \/ caller = "batches"
       THEN /\ all_findings_lists' = Extend(all_findings_lists, all_results)
            /\ batch_i' = batch_i + MAX_BATCH_SIZE
            /\ pc' = "batch"
       ELSE /\ pc' = "returned"
            /\ UNCHANGED << all_findings_lists, batch_i >>
    /\ UNCHANGED << caller, topic, raised, stages, decompose_calls, subtasks_result,
                    prev_subtasks, subtasks, search_terms,
                    queries, qi, attempt, qlog, all_results, research_data, oi,
                    subtask_content, sources, section_calls, compose_calls, result_data, exc, report, call_log,
                    hits, hit_i, results, fetched, main_pc, progress, frame >>

\* The capability calls of the current query, as the attempt indices they were made with
RECURSIVE CallAttempts(_)
CallAttempts(log) ==
    IF log = << >> THEN << >>
    ELSE IF Head(log).e = "call" THEN << Head(log).a >> \o CallAttempts(Tail(log))
    ELSE CallAttempts(Tail(log))

RECURSIVE Raises(_)
Raises(log) ==
    IF log = << >> THEN << >>
    ELSE IF Head(log).e = "raise" THEN << Head(log).v >> \o Raises(Tail(log))
    ELSE Raises(Tail(log))

-----------------------------------------------------------------------------
(* Report synthesis: generate_report *)

\* A dict with insertion order: a sequence of [key, val] with distinct keys
DictHas(d, k) == \E i \in 1..Len(d) : d[i].key = k
DictSet(d, k, v) ==
    IF DictHas(d, k)
    THEN [i \in 1..Len(d) |-> IF d[i].key = k THEN [key |-> k, val |-> v] ELSE d[i]]
    ELSE Append(d, [key |-> k, val |-> v])

\* sum(len(points) for points in findings.values())
RECURSIVE TotalPoints(_)
TotalPoints(d) == IF d = << >> THEN 0 ELSE Len(Head(d).val) + TotalPoints(Tail(d))

InSeq(x, seq) == \E i \in 1..Len(seq) : seq[i] = x

AddSourceNoDedup(srcs, source) ==
    IF source # << >> /\ ~StartsWith(source, "@") THEN Append(srcs, source) ELSE srcs

AddSourceFront(srcs, source) ==
    IF source # << >> /\ ~StartsWith(source, "@") /\ ~InSeq(source, srcs)
    THEN << source >> \o srcs
    ELSE srcs

\* "if source and not source.startswith('@') and source not in sources:
\*      sources.append(source)" (lines 45-46)
AddSource(srcs, source) ==
    IF source # << >> /\ ~StartsWith(source, "@") /\ ~InSeq(source, srcs)
    THEN Append(srcs, source)
    ELSE srcs

\* The inner for loop over data_points, as far as sources go (lines 40-46)
RECURSIVE CollectSources(_, _)
CollectSources(srcs, data_points) ==
    IF data_points = << >> THEN srcs
    ELSE CollectSources(AddSource(srcs, Head(data_points).source), Tail(data_points))

\* combined_content (lines 37, 49-51), then the truncation of lines 69-71
RECURSIVE CombinedContent(_)
CombinedContent(data_points) ==
    IF data_points = << >> THEN << >>
    ELSE (IF Head(data_points).content # << >>
          THEN Head(data_points).content \o << Lit("\n\n") >>
          ELSE << >>) \o CombinedContent(Tail(data_points))

TruncatedContent(data_points) ==
    LET combined == CombinedContent(data_points) IN
        IF StrLen(combined) > ContentCeiling
        THEN StrTake(combined, ContentCeiling) \o << Lit("\n[Content truncated for length]\n") >>
        ELSE combined

\* valid_sources = [src for src in sources if not src.startswith('@')] (lines 101, 155)
RECURSIVE ValidSources(_)
ValidSources(srcs) ==
    IF srcs = << >> THEN << >>
    ELSE (IF StartsWith(Head(srcs), "@") THEN << >> ELSE << Head(srcs) >>)
         \o ValidSources(Tail(srcs))

NumberedSourcesFromZero(valid) ==
    Flatten([i \in 1..Len(valid) |->
                << Lit(ToString(i - 1)), Lit(". ") >> \o valid[i] \o << Lit("\n") >>])

\* for i, source in enumerate(valid_sources): text += f"{i+1}. {source}\n"
NumberedSources(valid) ==
    Flatten([i \in 1..Len(valid) |->
                << Lit(ToString(i)), Lit(". ") >> \o valid[i] \o << Lit("\n") >>])

\* Lines 138-142: the references section is appended when the text has neither
\* "References" nor "REFERENCES"
WithReferences(text, valid) ==
    IF ~HasWord(text, "References") /\ ~HasWord(text, "REFERENCES")
    THEN text \o << Lit("\n\n## References\n\n") >> \o NumberedSources(valid)
    ELSE text

\* minimal_report of the exception handler (lines 156-158)
MinimalReport(msg, valid) ==
    << Lit("Error generating report: ") >> \o msg \o << Lit("\n\n## References\n\n") >>
        \o NumberedSources(valid)

\* The constraints of schemas/research_report.py on a ResearchReport
ReportValid(rep) ==
    /\ StrLen(rep.synthesis) >= MinSynthesisLength
    /\ Len(rep.sources) >= MinSourcesItems

\* str(e) of the pydantic error raised for a synthesis that is too short
ValidationErrorMessage ==
    << Lit("1 validation error for ResearchReport\nsynthesis\n  String should have at least 100 characters [type=string_too_short, input_type=str]") >>

Report(t, findings, synthesis, srcs) ==
    [made |-> TRUE, topic |-> t, findings |-> findings, synthesis |-> synthesis,
     sources |-> srcs]

\* The ResearchReport(...) of lines 145-150
NormalReport(t, findings, text, srcs) ==
    LET valid == ValidSources(srcs) IN
        Report(t, findings, WithReferences(text, valid),
               IF valid # << >> THEN valid ELSE << << Lit("No valid sources found") >> >>)

FallbackReportNoFindings(t, findings, msg, srcs) ==
    LET valid == ValidSources(srcs) IN
        Report(t, << >>, MinimalReport(msg, valid),
               IF valid # << >> THEN valid ELSE << << Lit("Error collecting sources") >> >>)

\* The ResearchReport(...) of lines 160-165
FallbackReport(t, findings, msg, srcs) ==
    LET valid == ValidSources(srcs) IN
        Report(t, findings, MinimalReport(msg, valid),
               IF valid # << >> THEN valid ELSE << << Lit("Error collecting sources") >> >>)

\* What the synthesis capability may do, per call
SectionTexts == { << Blob("section", 800) >> }
SectionErrors == { << Lit("Request timed out") >> }
ComposeTextsAll ==
    { << Blob("report", 2500), Lit("References"), Blob("list", 60) >>,
      << Blob("report", 2500) >>,
      << Blob("report", 40) >>,
      << Blob("report", 60), Lit("REFERENCES") >>,
      << Blob("report", 300), Lit("references"), Blob("list", 60) >>,
      << >> }
ComposeErrorsAll ==
    { << Lit("status_code: "), Lit("429") >>,
      << Blob("traceback", 200) >>,
      << >> }
ComposeTexts ==
    IF InPipeline
    THEN { << Blob("report", 2500) >>, << Blob("report", 40) >> }
    ELSE ComposeTextsAll
ComposeErrors ==
    IF caller = "pipeline"
    THEN { << Lit("status_code: "), Lit("429") >>, << Blob("traceback", 200) >> }
    ELSE IF caller = "main" THEN { << Lit("status_code: "), Lit("429") >> }
    ELSE ComposeErrorsAll

SectionErrorTextBare(msg) == msg

\* The f-string of line 79
SectionErrorText(msg) == << Lit("Error processing content: ") >> \o msg

\* What may happen for one objective: no call when it has no data points (kind
\* "skip", lines 32-34), else summarizer.run returns a text or raises (line 73)
SectionOutcomes(data_points) ==
    IF data_points = << >>
    THEN { [kind |-> "skip", v |-> << >>] }
    ELSE { [kind |-> "return", v |-> text] : text \in SectionTexts }
         \cup { [kind |-> "raise", v |-> msg] : msg \in SectionErrors }

\* What the objective's section becomes: the literal of line 33, what
\* summarizer.run returned (line 75) or the placeholder for what it raised
\* (line 79)
SectionContent(outcome) ==
    IF outcome.kind = "skip" THEN << Lit("No data found for this objective.") >>
    ELSE IF outcome.kind = "return" THEN outcome.v
    ELSE SectionErrorText(outcome.v)

\* The calls with what came of them
WithOutcome(calls, outcome) ==
    [i \in 1..Len(calls) |->
        [objective |-> calls[i].objective, content |-> calls[i].content,
         kind |-> outcome.kind, v |-> outcome.v]]

SectionCallAlways(entry) ==
    << [objective |-> entry.key, content |-> TruncatedContent(entry.val)] >>

\* summarizer.run is called for an objective with data points only (lines 32-34, 73)
SectionCall(entry) ==
    IF entry.val = << >> THEN << >>
    ELSE << [objective |-> entry.key, content |-> TruncatedContent(entry.val)] >>

\* One iteration of "for objective, data_points in research_data.items()"
\* (lines 29-79)
GrObjective ==
    /\ pc = "gr_loop"
    /\ oi <= Len(research_data)
    /\ sources' = CollectSources(sources, research_data[oi].val)
    /\ \E outcome \in SectionOutcomes(research_data[oi].val) :
          /\ section_calls' =
                section_calls \o WithOutcome(SectionCall(research_data[oi]), outcome)
          /\ subtask_content' = DictSet(subtask_content, research_data[oi].key,
                                        SectionContent(outcome))
    /\ oi' = oi + 1
    /\ UNCHANGED << pc, caller, topic, raised, stages, decompose_calls, subtasks_result,
                    prev_subtasks, subtasks, search_terms, batch_i, all_findings_lists,
                    queries, qi, attempt, qlog, all_results, research_data,
                    compose_calls, result_data, exc, report, call_log,
                    hits, hit_i, results, fetched, main_pc, progress, frame >>

\* Where generate_report returns to
AfterGenerate == IF InPipeline THEN "validate_report" ELSE "gr_returned"

\* report_agent.run returns; the report object is built (lines 134-150).  A
\* ResearchReport that fails its schema raises inside the try block.
GrComposeReturns ==
    /\ pc = "gr_loop"
    /\ oi > Len(research_data)
    /\ compose_calls' = compose_calls + 1
    /\ \E text \in ComposeTexts :
          LET rep == NormalReport(topic, research_data, text, sources) IN
              /\ result_data' = text
              /\ IF ReportValid(rep)
                 THEN /\ report' = rep
                      /\ pc' = AfterGenerate
                      /\ UNCHANGED exc
                 ELSE /\ exc' = ValidationErrorMessage
                      /\ pc' = "gr_except"
                      /\ UNCHANGED report
    /\ UNCHANGED << caller, topic, raised, stages, decompose_calls, subtasks_result,
                    prev_subtasks, subtasks, search_terms, batch_i, all_findings_lists,
                    queries, qi, attempt, qlog, all_results, research_data, oi,
                    subtask_content, sources, section_calls, call_log,
                    hits, hit_i, results, fetched, main_pc, progress, frame >>

\* report_agent.run raises (line 134, caught at line 152)
GrComposeRaises ==
    /\ pc = "gr_loop"
    /\ oi > Len(research_data)
    /\ compose_calls' = compose_calls + 1
    /\ \E msg \in ComposeErrors : exc' = msg
    /\ pc' = "gr_except"
    /\ UNCHANGED << caller, topic, raised, stages, decompose_calls, subtasks_result,
                    prev_subtasks, subtasks, search_terms, batch_i, all_findings_lists,
                    queries, qi, attempt, qlog, all_results, research_data, oi,
                    subtask_content, sources, section_calls, result_data, report, call_log,
                    hits, hit_i, results, fetched, main_pc, progress, frame >>

\* The handler "except Exception as e" (lines 152-165).  A ResearchReport that
\* fails its schema here raises out of generate_report.
GrExcept ==
    /\ pc = "gr_except"
    /\ LET rep == FallbackReport(topic, research_data, exc, sources) IN
          IF ReportValid(rep)
          THEN /\ report' = rep
               /\ pc' = AfterGenerate
               /\ UNCHANGED raised
          ELSE /\ raised' = [stage |-> "synthesis", msg |-> ValidationErrorMessage]
               /\ pc' = "raised"
               /\ UNCHANGED report
    /\ UNCHANGED << caller, topic, stages, decompose_calls, subtasks_result,
                    prev_subtasks, subtasks, search_terms, batch_i, all_findings_lists,
                    queries, qi, attempt, qlog, all_results, research_data, oi,
                    subtask_content, sources, section_calls, compose_calls, result_data, exc, call_log,
                    hits, hit_i, results, fetched, main_pc, progress, frame >>

-----------------------------------------------------------------------------
(* Report validation: validate_report *)

\* content[:300] + "..." if len(content) > 300 else content (line 201)
ContentPreview(content) ==
    IF StrLen(content) > PreviewLength
    THEN StrTake(content, PreviewLength) \o << Lit("...") >>
    ELSE content

\* Lines 194-202: one block per data point
PointBlock(dp) ==
    << Lit("### Information from ") >> \o dp.source \o << Lit("\n\n") >>
        \o (IF dp.content # << >> THEN ContentPreview(dp.content) \o << Lit("\n\n") >>
            ELSE << >>)

\* Lines 186-202: one subsection per objective
ObjectiveBlock(entry) ==
    << Lit("## ") >> \o entry.key \o << Lit("\n\n") >>
        \o (IF entry.val = << >>
            THEN << Lit("No data found for this objective.\n\n") >>
            ELSE Flatten([i \in 1..Len(entry.val) |-> PointBlock(entry.val[i])]))

ReferenceLinesFiltered(findings) ==
    Flatten([k \in 1..Len(findings) |->
                Flatten([i \in 1..Len(findings[k].val) |->
                            IF StartsWith(findings[k].val[i].source, "@") THEN << >>
                            ELSE << Lit("- ") >> \o findings[k].val[i].source
                                 \o << Lit("\n") >>])])

\* Lines 206-209: one line per data point
ReferenceLines(findings) ==
    Flatten([k \in 1..Len(findings) |->
                Flatten([i \in 1..Len(findings[k].val) |->
                            << Lit("- ") >> \o findings[k].val[i].source \o << Lit("\n") >>])])

\* minimal_synthesis (lines 183-209)
MinimalSynthesis(t, findings) ==
    << Lit("# Research Report: ") >> \o t \o << Lit("\n\n") >>
        \o Flatten([k \in 1..Len(findings) |-> ObjectiveBlock(findings[k])])
        \o << Lit("## References\n\n") >>
        \o ReferenceLines(findings)

\* The test of line 174
TooShort(synthesis) == synthesis = << >> \/ StrLen(synthesis) < MIN_REPORT_WORDS * 2

CanRegenerateAlways(findings) == TRUE

\* The test of line 178
CanRegenerate(findings) == findings # << >> /\ TotalPoints(findings) > 0

validate_report_appending(rep) ==
    IF TooShort(rep.synthesis) /\ CanRegenerate(rep.findings)
    THEN [rep EXCEPT !.synthesis = rep.synthesis \o MinimalSynthesis(rep.topic, rep.findings)]
    ELSE rep

\* validate_report (lines 172-221): the synthesis is regenerated when it is too
\* short and there are findings; the report is returned in every case
validate_report(rep) ==
    IF TooShort(rep.synthesis) /\ CanRegenerate(rep.findings)
    THEN [rep EXCEPT !.synthesis = MinimalSynthesis(rep.topic, rep.findings)]
    ELSE rep

\* validated_report = await validate_report(validation_context, report)
\* (main.py line 176), or validate_report called on generate_report's result,
\* once and then on its own output
ValidateReport ==
    /\ pc \in { "validate_report", "gr_returned", "vr_returned" }
    /\ report' = validate_report(report)
    /\ stages' = IF InPipeline THEN stages \cup { "validation" } ELSE stages
    /\ pc' = IF InPipeline THEN "done"
             ELSE IF pc = "gr_returned" THEN "vr_returned" ELSE "vr_twice"
    /\ UNCHANGED << caller, topic, raised, decompose_calls, subtasks_result,
                    prev_subtasks, subtasks, search_terms, batch_i, all_findings_lists,
                    queries, qi, attempt, qlog, all_results, research_data, oi,
                    subtask_content, sources, section_calls, compose_calls, result_data, exc, call_log,
                    hits, hit_i, results, fetched, main_pc, progress, frame >>

-----------------------------------------------------------------------------
(* Inputs *)

Topics == { << Lit("AI in Healthcare") >> }

ObjDiagnosis == << Lit("AI diagnosis tools") >>
ObjRegulation == << Lit("AI regulation") >>
ObjAdoption == << Lit("hospital adoption") >>
TermMedical == << Lit("medical AI") >>
TermEthics == << Lit("AI regulation"), Lit(" "), Lit("ethics") >>
TermHospitals == << Lit("hospital AI use") >>
TermLaw == << Lit("EU law on "), Lit("AI regulation") >>

PointLists ==
    { << >>, << PointA >>, << PointAt >>, << PointA, PointB, PointA >>,
      << PointAt, PointNoSource, PointB >> }

DistinctKeys(d) == \A i, j \in 1..Len(d) : d[i].key = d[j].key => i = j

SubtaskChoices ==
    { Subtask(o, t, p) : o \in { ObjDiagnosis, ObjRegulation },
                         t \in { << >>, << TermMedical, TermEthics >> },
                         p \in 1..MaxPriority }

SeqsUpTo(S, n) == UNION { [1..k -> S] : k \in 0..n }

FindingsInputs ==
    { d \in SeqsUpTo([key : { ObjDiagnosis, ObjRegulation, ObjAdoption }, val : PointLists],
                     MaxObjectives) : DistinctKeys(d) }

\* Values of the variables a specification does not use
WebIdle == hits = << >> /\ hit_i = 1 /\ results = << >> /\ fetched = << >>
MainIdle == main_pc = "none" /\ progress = "none" /\ frame = 0
PlanIdle == subtasks_result = << >> /\ prev_subtasks = << >> /\ subtasks = << >>
PipelineIdle ==
    /\ raised = NoError /\ stages = {} /\ decompose_calls = 0
    /\ search_terms = << >> /\ batch_i = 0 /\ all_findings_lists = << >>
SearchIdle ==
    /\ queries = << >> /\ qi = 1 /\ attempt = 0 /\ qlog = << >> /\ all_results = << >>
    /\ call_log = << >>
ReportIdle ==
    /\ research_data = << >> /\ oi = 1 /\ subtask_content = << >> /\ sources = << >>
    /\ section_calls = << >> /\ compose_calls = 0 /\ result_data = Unbound /\ exc = << >> /\ report = NoReport

-----------------------------------------------------------------------------
(* Planner stage *)

\* subtasks = await validate_subtasks(context, subtasks) (main.py line 104), or
\* validate_subtasks called on its own, once and then on its own output
ValidateSubtasks ==
    /\ pc \in { "validate", "validated" }
    /\ prev_subtasks' = subtasks
    /\ subtasks' = validate_subtasks(subtasks)
    /\ pc' = IF InPipeline THEN "extract"
             ELSE IF pc = "validate" THEN "validated" ELSE "revalidated"
    /\ UNCHANGED << caller, topic, raised, stages, decompose_calls, subtasks_result,
                    search_terms, batch_i, all_findings_lists,
                    queries, qi, attempt, qlog, all_results, research_data, oi,
                    subtask_content, sources, section_calls, compose_calls, result_data, exc, report, call_log,
                    hits, hit_i, results, fetched, main_pc, progress, frame >>

InitPlan ==
    /\ pc = "validate" /\ caller = "direct" /\ topic = << >>
    /\ subtasks_result \in SeqsUpTo(SubtaskChoices, MaxPlanLen)
    /\ subtasks = subtasks_result
    /\ prev_subtasks = << >>
    /\ PipelineIdle /\ SearchIdle /\ ReportIdle /\ WebIdle /\ MainIdle

NextPlan == ValidateSubtasks

SpecPlan == InitPlan /\ [][NextPlan]_vars

InitSearch ==
    /\ pc = "ps_loop" /\ caller = "direct" /\ topic = << >>
    /\ queries \in SeqsUpTo({ TermMedical, TermEthics }, MaxQueries)
    /\ qi = 1 /\ attempt = 0 /\ qlog = << >> /\ all_results = << >> /\ call_log = << >>
    /\ PlanIdle /\ PipelineIdle /\ ReportIdle /\ WebIdle /\ MainIdle

NextSearch ==
    \/ PsNextQuery
    \/ PqPace
    \/ PqCallReturns
    \/ PqCallRaises
    \/ PqBackoff
    \/ PsSleep
    \/ PsReturn

SpecSearch == InitSearch /\ [][NextSearch]_vars

InitReport ==
    /\ pc = "gr_loop" /\ caller = "direct" /\ topic \in Topics
    /\ research_data \in FindingsInputs
    /\ oi = 1 /\ subtask_content = << >> /\ sources = << >>
    /\ section_calls = << >> /\ compose_calls = 0 /\ result_data = Unbound /\ exc = << >> /\ report = NoReport
    /\ PlanIdle /\ PipelineIdle /\ SearchIdle /\ WebIdle /\ MainIdle

NextReport ==
    \/ GrObjective
    \/ GrComposeReturns
    \/ GrComposeRaises
    \/ GrExcept
    \/ ValidateReport

SpecReport == InitReport /\ [][NextReport]_vars

-----------------------------------------------------------------------------
(* The pipeline: research_pipeline *)

\* What the decomposition capability (query_analyst.run) may return or raise.
\* Its result type admits a list of any length; each subtask meets the schema.
PlanChoices ==
    IF caller = "main"
    THEN { << Subtask(ObjRegulation, << TermEthics >>, 2),
              Subtask(ObjDiagnosis, << TermMedical >>, 2) >> }
    ELSE
    { << >>,
      << Subtask(ObjRegulation, << TermEthics >>, 2),
         Subtask(ObjDiagnosis, << TermMedical >>, 2) >>,
      << Subtask(ObjDiagnosis, << TermMedical >>, 3),
         Subtask(ObjRegulation, << TermEthics >>, 1),
         Subtask(ObjAdoption, << TermHospitals >>, 1) >>,
      << Subtask(ObjDiagnosis, << TermMedical >>, 1),
         Subtask(ObjRegulation, << TermEthics, TermLaw >>, 2),
         Subtask(ObjAdoption, << TermHospitals >>, 3) >>,
      << Subtask(ObjAdoption, << >>, 1) >> }
PlanErrors == { << Lit("status_code: "), Lit("429") >>, << Lit("model output invalid") >> }

\* query_analyst.run returns (main.py lines 90-92)
DecomposeReturns ==
    /\ pc = "analyze"
    /\ decompose_calls' = decompose_calls + 1
    /\ stages' = stages \cup { "planning" }
    /\ \E plan \in PlanChoices :
          /\ subtasks_result' = plan
          /\ subtasks' = plan
    /\ pc' = "validate"
    /\ UNCHANGED << caller, topic, raised, prev_subtasks, search_terms, batch_i,
                    all_findings_lists, queries, qi, attempt, qlog, all_results,
                    research_data, oi, subtask_content, sources, section_calls,
                    compose_calls, result_data, exc, report, call_log,
                    hits, hit_i, results, fetched, main_pc, progress, frame >>

DecomposeRaisesAndRetries ==
    /\ pc = "analyze"
    /\ decompose_calls' = decompose_calls + 1
    /\ stages' = stages \cup { "planning" }
    /\ pc' = "analyze"
    /\ UNCHANGED << caller, topic, raised, subtasks_result, prev_subtasks, subtasks,
                    search_terms, batch_i, all_findings_lists, queries, qi, attempt,
                    qlog, all_results, research_data, oi, subtask_content, sources,
                    section_calls, compose_calls, result_data, exc, report, call_log,
                    hits, hit_i, results, fetched, main_pc, progress, frame >>

\* query_analyst.run raises; the handler logs and re-raises (main.py lines 93-95)
DecomposeRaises ==
    /\ pc = "analyze"
    /\ decompose_calls' = decompose_calls + 1
    /\ stages' = stages \cup { "planning" }
    /\ \E msg \in PlanErrors : raised' = [stage |-> "planning", msg |-> msg]
    /\ pc' = "raised"
    /\ UNCHANGED << caller, topic, subtasks_result, prev_subtasks, subtasks,
                    search_terms, batch_i, all_findings_lists, queries, qi, attempt,
                    qlog, all_results, research_data, oi, subtask_content, sources,
                    section_calls, compose_calls, result_data, exc, report, call_log,
                    hits, hit_i, results, fetched, main_pc, progress, frame >>

\* The search terms of one subtask (main.py lines 109-114)
TaskTerms(t, task) ==
    IF task.search_terms # << >>
    THEN [k \in 1..Len(task.search_terms) |-> t \o << Lit(" ") >> \o task.search_terms[k]]
    ELSE << t \o << Lit(" ") >> \o task.objective >>

\* main.py lines 107-114
SearchTermsOf(t, sts) == Flatten([i \in 1..Len(sts) |-> TaskTerms(t, sts[i])])

ExtractSearchTerms ==
    /\ pc = "extract"
    /\ search_terms' = SearchTermsOf(topic, subtasks)
    /\ all_findings_lists' = << >>
    /\ batch_i' = 0
    /\ stages' = stages \cup { "terms" }
    /\ pc' = "batch"
    /\ UNCHANGED << caller, topic, raised, decompose_calls, subtasks_result,
                    prev_subtasks, subtasks, queries, qi, attempt, qlog, all_results,
                    research_data, oi, subtask_content, sources, section_calls,
                    compose_calls, result_data, exc, report, call_log,
                    hits, hit_i, results, fetched, main_pc, progress, frame >>

Min(a, b) == IF a <= b THEN a ELSE b

\* batch = search_terms[i:i+MAX_BATCH_SIZE]; parallel_search(search_context, batch)
\* (main.py lines 131-134)
BatchStart ==
    /\ pc = "batch"
    /\ batch_i < Len(search_terms)
    /\ queries' = SubSeq(search_terms, batch_i + 1,
                         Min(batch_i + MAX_BATCH_SIZE, Len(search_terms)))
    /\ qi' = 1
    /\ all_results' = << >>
    /\ stages' = stages \cup { "retrieval" }
    /\ pc' = "ps_loop"
    /\ UNCHANGED << caller, topic, raised, decompose_calls, subtasks_result,
                    prev_subtasks, subtasks, search_terms, batch_i, all_findings_lists,
                    attempt, qlog, research_data, oi, subtask_content, sources,
                    section_calls, compose_calls, result_data, exc, report, call_log,
                    hits, hit_i, results, fetched, main_pc, progress, frame >>

RECURSIVE DirectFindingsReversed(_, _, _, _)
DirectFindingsReversed(objective, terms, lists, j) ==
    IF j > Len(terms) THEN << >>
    ELSE DirectFindingsReversed(objective, terms, lists, j + 1)
         \o (IF j <= Len(lists) /\ IsSubstr(objective, terms[j]) THEN lists[j] ELSE << >>)

\* The findings of term j count for the objective (main.py lines 143-145);
\* j is 1-based here
RECURSIVE DirectFindings(_, _, _, _)
DirectFindings(objective, terms, lists, j) ==
    IF j > Len(terms) THEN << >>
    ELSE (IF j <= Len(lists) /\ IsSubstr(objective, terms[j]) THEN lists[j] ELSE << >>)
         \o DirectFindings(objective, terms, lists, j + 1)

TaskFindingsDirectOnly(sts, terms, lists, i) ==
    DirectFindings(sts[i].objective, terms, lists, 1)

\* task_findings of the subtask at (1-based) position i (main.py lines 142-149)
TaskFindings(sts, terms, lists, i) ==
    LET direct == DirectFindings(sts[i].objective, terms, lists, 1) IN
        IF direct = << >> /\ i <= Len(lists) THEN lists[i] ELSE direct

\* findings_dict (main.py lines 139-151)
RECURSIVE FindingsDict(_, _, _, _)
FindingsDict(sts, terms, lists, n) ==
    IF n = 0 THEN << >>
    ELSE DictSet(FindingsDict(sts, terms, lists, n - 1), sts[n].objective,
                 TaskFindings(sts, terms, lists, n))

\* The batch loop is over: findings_dict is built and generate_report is called
\* (main.py lines 139-164)
MapFindings ==
    /\ pc = "batch"
    /\ batch_i >= Len(search_terms)
    /\ research_data' = FindingsDict(subtasks, search_terms, all_findings_lists,
                                     Len(subtasks))
    /\ oi' = 1
    /\ subtask_content' = << >>
    /\ sources' = << >>
    /\ stages' = stages \cup { "aggregation", "synthesis" }
    /\ pc' = "gr_loop"
    /\ UNCHANGED << caller, topic, raised, decompose_calls, subtasks_result,
                    prev_subtasks, subtasks, search_terms, batch_i, all_findings_lists,
                    queries, qi, attempt, qlog, all_results, section_calls,
                    compose_calls, result_data, exc, report, call_log,
                    hits, hit_i, results, fetched, main_pc, progress, frame >>

\* The batch loop of research_pipeline (main.py lines 127-136) run on its own,
\* caller "batches", over the first n of a row of distinct search terms
BatchTerm(i) == << Lit("term "), Lit(ToString(i)) >>
BatchTerms(n) == [i \in 1..n |-> BatchTerm(i)]

\* range(0, len(search_terms), MAX_BATCH_SIZE) is used up (main.py line 131)
BatchesDone ==
    /\ pc = "batch"
    /\ caller = "batches"
    /\ batch_i >= Len(search_terms)
    /\ pc' = "collected"
    /\ UNCHANGED << caller, topic, raised, stages, decompose_calls, subtasks_result,
                    prev_subtasks, subtasks, search_terms, batch_i, all_findings_lists,
                    queries, qi, attempt, qlog, all_results, research_data, oi,
                    subtask_content, sources, section_calls, compose_calls,
                    result_data, exc, report, call_log,
                    hits, hit_i, results, fetched, main_pc, progress, frame >>

InitBatches ==
    /\ pc = "batch" /\ caller = "batches" /\ topic = << >>
    /\ search_terms \in { BatchTerms(n) : n \in 0..MaxTerms }
    /\ raised = NoError /\ stages = {} /\ decompose_calls = 0
    /\ batch_i = 0 /\ all_findings_lists = << >>
    /\ PlanIdle /\ SearchIdle /\ ReportIdle /\ WebIdle /\ MainIdle

NextBatches ==
    \/ BatchStart
    \/ PsNextQuery
    \/ PqPace
    \/ PqCallReturns
    \/ PqCallRaises
    \/ PqBackoff
    \/ PsSleep
    \/ PsReturn
    \/ BatchesDone

SpecBatches == InitBatches /\ [][NextBatches]_vars

Init ==
    /\ pc = "analyze" /\ caller = "pipeline" /\ topic \in Topics
    /\ PlanIdle /\ PipelineIdle /\ SearchIdle /\ ReportIdle /\ WebIdle /\ MainIdle

Next ==
    \/ DecomposeReturns
    \/ DecomposeRaises
    \/ ValidateSubtasks
    \/ ExtractSearchTerms
    \/ BatchStart
    \/ PsNextQuery
    \/ PqPace
    \/ PqCallReturns
    \/ PqCallRaises
    \/ PqBackoff
    \/ PsSleep
    \/ PsReturn
    \/ MapFindings
    \/ GrObjective
    \/ GrComposeReturns
    \/ GrComposeRaises
    \/ GrExcept
    \/ ValidateReport

Spec == Init /\ [][Next]_vars

\* research_pipeline is one coroutine: when every awaited call and sleep comes
\* back, the step it is at is eventually taken
SpecFair == Init /\ [][Next]_vars /\ WF_vars(Next)

-----------------------------------------------------------------------------
(* The search tool: web_search and fetch_webpage_content *)

FetchCeiling == 12000

\* One entry of search_results['items']: a dict, a sequence of [key, val].  The
\* search engine gives every item its 'link'; 'snippet' and 'title' may be missing.
UrlShort == << Lit("https://a.example/p") >>
UrlLong == << Lit("https://b.example/"), Blob("path", 120) >>
Field(k, v) == [key |-> k, val |-> v]
ItemChoices ==
    { << Field("link", UrlShort), Field("snippet", << Blob("snippet", 150) >>),
         Field("title", << Lit("Medical AI") >>) >>,
      << Field("link", UrlLong), Field("snippet", << Blob("snippet", 150) >>),
         Field("title", << Lit("Medical AI") >>) >>,
      << Field("link", UrlShort), Field("title", << Lit("Medical AI") >>) >>,
      << Field("link", UrlShort) >> }

\* dict.get(key, default)
ItemGet(item, key, default) ==
    IF DictHas(item, key) THEN item[CHOOSE i \in 1..Len(item) : item[i].key = key].val
    ELSE default

\* snippet = item.get('snippet', item.get('title', 'No content available')) (line 102)
Snippet(item) ==
    ItemGet(item, "snippet", ItemGet(item, "title", << Lit("No content available") >>))

\* What the search request may do (lines 74-96, 139-146)
WebQueries == { << Lit("medical AI") >> }
SearchResponses ==
    { [kind |-> "items", items |-> items, v |-> << >>] :
          items \in SeqsUpTo(ItemChoices, MaxHits) }
    \cup { [kind |-> "no_items", items |-> << >>, v |-> << >>],
           [kind |-> "status", items |-> << >>, v |-> << Lit("403") >>],
           [kind |-> "raise", items |-> << >>, v |-> << Lit("Read timed out") >>] }

\* What the page request of fetch_webpage_content may do: a page with its
\* cleaned text, a status other than 200, or one of the exceptions of lines 226-233
PageTexts == { << Blob("page", 5000) >>, << Blob("page", 13000) >>, << Blob("page", 20) >>, << >> }
FetchOutcomes ==
    { [kind |-> "ok", v |-> text] : text \in PageTexts }
    \cup { [kind |-> "status", v |-> << Lit("404") >>],
           [kind |-> "timeout", v |-> << >>],
           [kind |-> "redirects", v |-> << >>],
           [kind |-> "request", v |-> << Lit("Connection refused") >>],
           [kind |-> "other", v |-> << Lit("'NoneType' object has no attribute 'splitlines'") >> ] }

\* The str fetch_webpage_content returns (lines 168-169, 218-233)
FetchReturn(url, outcome) ==
    IF outcome.kind = "ok"
    THEN IF StrLen(outcome.v) > FetchCeiling
         THEN StrTake(outcome.v, FetchCeiling) \o << Lit("... [content truncated for length]") >>
         ELSE outcome.v
    ELSE IF outcome.kind = "status"
    THEN << Lit("Failed to fetch content from ") >> \o url \o << Lit(" (Status code: ") >>
            \o outcome.v \o << Lit(")") >>
    ELSE IF outcome.kind = "timeout"
    THEN << Lit("Timeout while fetching content from ") >> \o url
    ELSE IF outcome.kind = "redirects"
    THEN << Lit("Too many redirects while fetching content from ") >> \o url
    ELSE IF outcome.kind = "request"
    THEN << Lit("Error fetching content: ") >> \o outcome.v
    ELSE << Lit("Unexpected error fetching content: ") >> \o outcome.v

Hit(source, content, title, summary) ==
    [source |-> source, content |-> content, title |-> title, summary |-> summary]

\* The dict built for one item (lines 100-127), full_content being what
\* fetch_webpage_content returned
HitResult(item, full_content) ==
    LET source_url == ItemGet(item, "link", << >>)
        title == ItemGet(item, "title", << Lit("No title") >>)
    IN  IF full_content # << >> /\ StrLen(full_content) > StrLen(Snippet(item))
        THEN Hit(source_url, full_content, title, << >>)
        ELSE Hit(source_url, Snippet(item), title, << Lit("Snippet: ") >> \o Snippet(item))

\* The search request and what follows it up to the loop over the items
\* (lines 63-98); the early returns and the outer handler return one dict
WsSearch ==
    /\ pc = "ws_search"
    /\ \E query \in WebQueries, response \in SearchResponses :
          IF response.kind = "items"
          THEN /\ hits' = response.items
               /\ pc' = "ws_loop"
               /\ UNCHANGED results
          ELSE /\ pc' = "ws_returned"
               /\ UNCHANGED hits
               /\ results' =
                    IF response.kind = "status"
                    THEN << Hit(<< Lit("https://example.com/search?q=") >> \o query,
                                << Lit("Search failed with status code: ") >> \o response.v,
                                << Lit("Error") >>,
                                << Lit("Search error: status code ") >> \o response.v) >>
                    ELSE IF response.kind = "no_items"
                    THEN << Hit(<< Lit("https://example.com/search?q=") >> \o query,
                                << Lit("No results found for query: ") >> \o query,
                                << Lit("No results") >>,
                                << Lit("No search results found for: ") >> \o query) >>
                    ELSE << Hit(<< Lit("https://example.com/error?q=") >> \o query,
                                << Lit("Error during search: ") >> \o response.v,
                                << Lit("Error") >>,
                                << Lit("Search error: ") >> \o response.v) >>
    /\ UNCHANGED << caller, topic, raised, stages, decompose_calls, subtasks_result,
                    prev_subtasks, subtasks, search_terms, batch_i, all_findings_lists,
                    queries, qi, attempt, qlog, all_results, research_data, oi,
                    subtask_content, sources, section_calls, compose_calls,
                    result_data, exc, report, call_log,
                    hit_i, fetched, main_pc, progress, frame >>

\* One iteration of "for item in search_results['items']" (lines 99-134)
WsItem ==
    /\ pc = "ws_loop"
    /\ hit_i <= Len(hits)
    /\ \E outcome \in FetchOutcomes :
          /\ fetched' = Append(fetched, outcome)
          /\ results' = Append(results,
                               HitResult(hits[hit_i],
                                         FetchReturn(ItemGet(hits[hit_i], "link", << >>), outcome)))
    /\ hit_i' = hit_i + 1
    /\ UNCHANGED << pc, caller, topic, raised, stages, decompose_calls, subtasks_result,
                    prev_subtasks, subtasks, search_terms, batch_i, all_findings_lists,
                    queries, qi, attempt, qlog, all_results, research_data, oi,
                    subtask_content, sources, section_calls, compose_calls,
                    result_data, exc, report, call_log,
                    hits, main_pc, progress, frame >>

\* return results (line 136)
WsReturn ==
    /\ pc = "ws_loop"
    /\ hit_i > Len(hits)
    /\ pc' = "ws_returned"
    /\ UNCHANGED << caller, topic, raised, stages, decompose_calls, subtasks_result,
                    prev_subtasks, subtasks, search_terms, batch_i, all_findings_lists,
                    queries, qi, attempt, qlog, all_results, research_data, oi,
                    subtask_content, sources, section_calls, compose_calls,
                    result_data, exc, report, call_log,
                    hits, hit_i, results, fetched, main_pc, progress, frame >>

InitWeb ==
    /\ pc = "ws_search" /\ caller = "direct" /\ topic = << >>
    /\ PlanIdle /\ PipelineIdle /\ SearchIdle /\ ReportIdle /\ WebIdle /\ MainIdle

NextWeb ==
    \/ WsSearch
    \/ WsItem
    \/ WsReturn

SpecWeb == InitWeb /\ [][NextWeb]_vars

-----------------------------------------------------------------------------
(* main() and the progress indicator *)

\* The variables research_pipeline and the functions it calls work on
pipeline_vars ==
    << pc, caller, topic, raised, stages, decompose_calls, subtasks_result,
       prev_subtasks, subtasks, search_terms, batch_i, all_findings_lists,
       queries, qi, attempt, qlog, all_results, research_data, oi,
       subtask_content, sources, section_calls, compose_calls, result_data, exc, report,
       call_log, hits, hit_i, results, fetched >>

\* One iteration of show_progress's loop: print the indicator of i, sleep half a
\* second, i += 1 (main.py lines 229-232).  The task runs only while main() is
\* suspended in its await.
ProgressTick ==
    /\ main_pc = "awaiting"
    /\ progress = "running"
    /\ frame < MaxFrames
    /\ frame' = frame + 1
    /\ UNCHANGED << pc, caller, topic, raised, stages, decompose_calls, subtasks_result,
                    prev_subtasks, subtasks, search_terms, batch_i, all_findings_lists,
                    queries, qi, attempt, qlog, all_results, research_data, oi,
                    subtask_content, sources, section_calls, compose_calls,
                    result_data, exc, report, call_log,
                    hits, hit_i, results, fetched, main_pc, progress >>

\* research_pipeline returned: progress_task.cancel(), the summary is printed
\* and the report saved (main.py lines 197-215); an error while saving reaches
\* the handler of lines 217-220, which cancels again
MainSucceeds ==
    /\ main_pc = "awaiting"
    /\ pc = "done"
    /\ progress' = "cancelled"
    /\ main_pc' \in { "finished", "failed" }
    /\ UNCHANGED << pc, caller, topic, raised, stages, decompose_calls, subtasks_result,
                    prev_subtasks, subtasks, search_terms, batch_i, all_findings_lists,
                    queries, qi, attempt, qlog, all_results, research_data, oi,
                    subtask_content, sources, section_calls, compose_calls,
                    result_data, exc, report, call_log,
                    hits, hit_i, results, fetched, frame >>

MainFailsKeepsProgress ==
    /\ main_pc = "awaiting"
    /\ pc = "raised"
    /\ main_pc' = "failed"
    /\ UNCHANGED << pc, caller, topic, raised, stages, decompose_calls, subtasks_result,
                    prev_subtasks, subtasks, search_terms, batch_i, all_findings_lists,
                    queries, qi, attempt, qlog, all_results, research_data, oi,
                    subtask_content, sources, section_calls, compose_calls,
                    result_data, exc, report, call_log,
                    hits, hit_i, results, fetched, progress, frame >>

\* research_pipeline raised: the handler cancels the indicator and prints the
\* error (main.py lines 217-220)
MainFails ==
    /\ main_pc = "awaiting"
    /\ pc = "raised"
    /\ progress' = "cancelled"
    /\ main_pc' = "failed"
    /\ UNCHANGED << pc, caller, topic, raised, stages, decompose_calls, subtasks_result,
                    prev_subtasks, subtasks, search_terms, batch_i, all_findings_lists,
                    queries, qi, attempt, qlog, all_results, research_data, oi,
                    subtask_content, sources, section_calls, compose_calls,
                    result_data, exc, report, call_log,
                    hits, hit_i, results, fetched, frame >>

\* The cancelled task runs its handler "except asyncio.CancelledError", which
\* blanks the line, and ends (main.py lines 233-234)
ProgressEnds ==
    /\ progress = "cancelled"
    /\ progress' = "ended"
    /\ UNCHANGED << pc, caller, topic, raised, stages, decompose_calls, subtasks_result,
                    prev_subtasks, subtasks, search_terms, batch_i, all_findings_lists,
                    queries, qi, attempt, qlog, all_results, research_data, oi,
                    subtask_content, sources, section_calls, compose_calls,
                    result_data, exc, report, call_log,
                    hits, hit_i, results, fetched, main_pc, frame >>

\* main() is at "report = await research_pipeline(topic)" (line 197), the
\* indicator task created (line 193)
InitMain ==
    /\ pc = "analyze" /\ caller = "main" /\ topic \in Topics
    /\ main_pc = "awaiting" /\ progress = "running" /\ frame = 0
    /\ PlanIdle /\ PipelineIdle /\ SearchIdle /\ ReportIdle /\ WebIdle

NextMain ==
    \/ Next
    \/ ProgressTick
    \/ MainSucceeds
    \/ MainFails
    \/ ProgressEnds

SpecMain == InitMain /\ [][NextMain]_vars

-----------------------------------------------------------------------------
(* Claims *)

\* The placeholders of process_query_with_retry, spelled out
IsNoResultsPlaceholder(result, query) ==
    /\ Len(result) = 1
    /\ result[1].source = << Lit("https://example.com/search?q=") >> \o query
IsErrorPlaceholder(result, query) ==
    /\ Len(result) = 1
    /\ result[1].source = << Lit("https://example.com/error?q=") >> \o query

\* C1: parallel_search returns exactly one result list per input term, in input
\* order (the i-th list is what the capability returned for the i-th term, or a
\* placeholder made for the i-th term), every list holds at least one DataPoint,
\* and parallel_search never raises nor stops before it returns, whatever the
\* capability does on each attempt.
C1_OneResultPerTerm ==
    /\ raised = NoError
    /\ pc # "raised"
    /\ Len(all_results) = (IF pc = "ps_sleep" THEN qi ELSE qi - 1)
    /\ Len(all_results) <= Len(queries)
    /\ \A i \in 1..Len(all_results) :
          /\ Len(all_results[i]) >= 1
          /\ \/ all_results[i] \in DataChoicesAll
             \/ IsNoResultsPlaceholder(all_results[i], queries[i])
             \/ IsErrorPlaceholder(all_results[i], queries[i])
    /\ pc = "returned" => Len(all_results) = Len(queries)
    /\ pc # "returned" => ENABLED NextSearch

\* C1 witness: parallel_search has returned for two terms, the first ended by an
\* error and the second by an empty answer
C1_Witness ==
    /\ pc = "returned"
    /\ Len(queries) = 2
    /\ queries[1] # queries[2]
    /\ IsErrorPlaceholder(all_results[1], queries[1])
    /\ IsNoResultsPlaceholder(all_results[2], queries[2])

\* C2: generate_report always returns a ResearchReport that satisfies the schema
\* (synthesis of at least 100 characters, sources non-empty) and never raises,
\* whatever the section and composition calls return or raise.
C2_AlwaysReturnsReport ==
    /\ raised = NoError
    /\ pc = "gr_returned" => (report.made /\ ReportValid(report))

NoDuplicates(seq) == \A i, j \in 1..Len(seq) : seq[i] = seq[j] => i = j

\* No data point of the findings has a source that may be cited
NoValidSource(findings) ==
    \A k \in 1..Len(findings) : \A i \in 1..Len(findings[k].val) :
        \/ findings[k].val[i].source = << >>
        \/ StartsWith(findings[k].val[i].source, "@")

\* C3: in every Report generate_report returns (normal and exception path), and
\* in that Report after validate_report, sources is non-empty, has no duplicate
\* and no entry starting with "@"; without any valid source it is one sentinel.
C3_SourcesWellFormed ==
    pc \in { "gr_returned", "vr_returned" } =>
        /\ report.made
        /\ Len(report.sources) >= 1
        /\ NoDuplicates(report.sources)
        /\ \A i \in 1..Len(report.sources) : ~StartsWith(report.sources[i], "@")
        /\ NoValidSource(research_data) =>
              report.sources \in { << << Lit("No valid sources found") >> >>,
                                   << << Lit("Error collecting sources") >> >> }

\* C3 witness: a Report came back through the exception path and was validated,
\* from findings with a repeated source and an "@" source
C3_Witness ==
    /\ pc = "vr_returned"
    /\ exc # << >>
    /\ Len(report.sources) = 2
    /\ \E k \in 1..Len(research_data) :
          /\ Len(research_data[k].val) = 3
          /\ research_data[k].val[1].source = research_data[k].val[3].source
    /\ \E k \in 1..Len(research_data) :
          /\ Len(research_data[k].val) >= 1
          /\ StartsWith(research_data[k].val[1].source, "@")

\* C4: once planning has succeeded, no exception from retrieval, aggregation,
\* synthesis or validation reaches the caller of research_pipeline, and the run
\* ends with a complete Report.
C4_OnlyPlanningRaises ==
    /\ raised.stage \in { "none", "planning" }
    /\ pc = "done" => (report.made /\ ReportValid(report))

\* C5: if the decomposition call raises, research_pipeline raises that error
\* after exactly one decomposition attempt, and no term extraction, retrieval,
\* aggregation, synthesis or validation step runs in that run.
C5_PlanningFailureIsFatal ==
    /\ decompose_calls <= 1
    /\ raised.stage = "planning" =>
          /\ pc = "raised"
          /\ raised.msg \in PlanErrors
          /\ decompose_calls = 1
          /\ stages = { "planning" }
          /\ search_terms = << >> /\ all_findings_lists = << >> /\ qlog = << >>
          /\ section_calls = << >> /\ compose_calls = 0
          /\ report = NoReport
          /\ ~ENABLED Next

\* C5 witness: the decomposition raised and the pipeline has raised to its caller
C5_Witness ==
    /\ pc = "raised"
    /\ raised.stage = "planning"
    /\ decompose_calls = 1

\* C6: validate_subtasks returns the subtasks in their input order (same
\* objectives, same search terms where any were given) with priorities exactly
\* 1..N in list order, strictly increasing, whatever priorities came in.
C6_PrioritiesDense ==
    pc = "validated" =>
        /\ Len(subtasks) = Len(subtasks_result)
        /\ \A i \in 1..Len(subtasks) :
              /\ subtasks[i].priority = i
              /\ subtasks[i].objective = subtasks_result[i].objective
              /\ subtasks_result[i].search_terms # << >> =>
                    subtasks[i].search_terms = subtasks_result[i].search_terms
        /\ \A i \in 1..(Len(subtasks) - 1) : subtasks[i].priority < subtasks[i + 1].priority

\* C6 witness: a list of three subtasks with duplicate, unordered priorities has been validated
C6_Witness ==
    /\ pc = "validated"
    /\ Len(subtasks_result) = 3
    /\ subtasks_result[1].priority = 3
    /\ subtasks_result[2].priority = 1
    /\ subtasks_result[3].priority = 1
    /\ subtasks_result[1].objective # subtasks_result[2].objective

\* C7: validate_subtasks is idempotent: applied to its own output it returns
\* the same list (order, search terms, priorities).
C7_Idempotent == pc = "revalidated" => subtasks = prev_subtasks

\* C7 witness: a second application has run on a list that the first one changed
C7_Witness ==
    /\ pc = "revalidated"
    /\ Len(subtasks) >= 2
    /\ subtasks # subtasks_result
    /\ \E i \in 1..Len(subtasks_result) : subtasks_result[i].search_terms = << >>

\* C8: the subtasks the Planner stage hands on to retrieval number between
\* MIN_SUBTASKS and MAX_SUBTASKS, whatever the decomposition returned.
C8_SubtaskCountInRange ==
    (caller = "pipeline" /\ pc \notin { "analyze", "validate", "raised" }) =>
        (MIN_SUBTASKS <= Len(subtasks) /\ Len(subtasks) <= MAX_SUBTASKS)

\* C9: for every search term, the capability is invoked at most max_retries + 1
\* times, with attempt indices 0, 1, 2, ... in increasing order.
C9_AttemptsBounded ==
    LET calls == CallAttempts(qlog) IN
        /\ Len(calls) <= max_retries + 1
        /\ \A k \in 1..Len(calls) : calls[k] = k - 1

\* C9 witness: the capability has been invoked max_retries + 1 times for one term
C9_Witness ==
    /\ Len(CallAttempts(qlog)) = max_retries + 1
    /\ pc = "ps_sleep"

\* Every attempt of the current query raised, each with "429" in its message
AllAttemptsThrottled ==
    /\ Len(Raises(qlog)) = Len(CallAttempts(qlog))
    /\ Len(Raises(qlog)) > 0
    /\ \A k \in 1..Len(Raises(qlog)) : HasWord(Raises(qlog)[k], "429")

\* C10: if every attempt for a term raised an error containing "429", then once
\* the retries are exhausted the term's result is exactly one error placeholder
\* with relevance_score 0.1 (1 tenth), and the term's slot is not empty.
C10_ThrottledPlaceholder ==
    (pc = "ps_sleep" /\ AllAttemptsThrottled) =>
        /\ Len(all_results) = qi
        /\ Len(all_results[qi]) = 1
        /\ all_results[qi][1].relevance_score = 1
        /\ all_results[qi][1].source = << Lit("https://example.com/error?q=") >> \o queries[qi]
        /\ all_results[qi][1].content =
              << Lit("Error during search for '") >> \o queries[qi] \o << Lit("'") >>
        /\ Len(CallAttempts(qlog)) = max_retries + 1

\* C10 witness: a term's retries are exhausted by "429" errors alone
C10_Witness ==
    /\ pc = "ps_sleep"
    /\ AllAttemptsThrottled
    /\ Len(Raises(qlog)) = max_retries + 1
    /\ qi = 2

\* The report came from the exception handler of generate_report (lines 152-165)
FromHandler(rep) ==
    rep.synthesis # << >> /\ rep.synthesis[1] = Lit("Error generating report: ")

\* str.lower() of one word
LowerWord(s) == IF s \in { "References", "REFERENCES", "references" } THEN "references" ELSE s

\* "references" in text.lower()
MentionsReferences(text) ==
    \E i \in 1..Len(text) :
        text[i].n = Len(text[i].s) /\ LowerWord(text[i].s) = "references"

\* The header of lines 140-142 is in the synthesis
SectionAppended(synthesis) == HasWord(synthesis, "\n\n## References\n\n")

\* C11: when the composition returned and the report was built from its text,
\* the references section was appended if and only if the composed text does not
\* contain "references" in any letter case.
C11_AppendedIffNoMention ==
    (pc = "gr_returned" /\ ~FromHandler(report)) =>
        (SectionAppended(report.synthesis) <=> ~MentionsReferences(result_data))

\* The source of every data point of a findings map, objectives in map order and
\* data points in list order
RECURSIVE AllPointSources(_)
AllPointSources(findings) ==
    IF findings = << >> THEN << >>
    ELSE [i \in 1..Len(Head(findings).val) |-> Head(findings).val[i].source]
         \o AllPointSources(Tail(findings))

\* The reference citation list: each source of all, from position i on, the
\* first time it is seen, without those that start with "@" and, when dropEmpty,
\* without the empty one
RECURSIVE CitationsFrom(_, _, _)
CitationsFrom(all, i, dropEmpty) ==
    IF i > Len(all) THEN << >>
    ELSE (IF /\ ~StartsWith(all[i], "@")
             /\ \A j \in 1..(i - 1) : all[j] # all[i]
             /\ dropEmpty => all[i] # << >>
          THEN << all[i] >> ELSE << >>)
         \o CitationsFrom(all, i + 1, dropEmpty)

Citations(findings) == CitationsFrom(AllPointSources(findings), 1, TRUE)

\* The entries "1. <source>\n", "2. <source>\n", ... for a list of sources
RECURSIVE EntriesFrom(_, _)
EntriesFrom(srcs, i) ==
    IF i > Len(srcs) THEN << >>
    ELSE << Lit(ToString(i)), Lit(". ") >> \o srcs[i] \o << Lit("\n") >>
         \o EntriesFrom(srcs, i + 1)

\* What follows the appended header in a synthesis
AfterHeader(synthesis) ==
    LET p == CHOOSE i \in 1..Len(synthesis) : synthesis[i] = Lit("\n\n## References\n\n")
    IN  SubSeq(synthesis, p + 1, Len(synthesis))

\* The synthesis has a references heading, its own or the appended one
HasReferencesHeading(synthesis) ==
    \/ HasWord(synthesis, "References")
    \/ HasWord(synthesis, "REFERENCES")
    \/ SectionAppended(synthesis)

\* C12 as stated: every Report generate_report returns has a references section
\* in its synthesis; an appended section lists the valid, deduplicated sources
\* once each, numbered from 1 in first-seen order, and the Report's sources list
\* holds the same entries.
C12_SectionMatchesSources ==
    pc = "gr_returned" =>
        /\ HasReferencesHeading(report.synthesis)
        /\ SectionAppended(report.synthesis) =>
              /\ AfterHeader(report.synthesis) = EntriesFrom(Citations(report.findings), 1)
              /\ report.sources = Citations(report.findings)

\* C12 amended: as above, but the sources list holds the same entries only when
\* there is at least one valid source; with none, the appended section has no
\* entry and the sources list holds one sentinel string.
C12_SectionMatchesValidSources ==
    pc = "gr_returned" =>
        /\ HasReferencesHeading(report.synthesis)
        /\ SectionAppended(report.synthesis) =>
              /\ AfterHeader(report.synthesis) = EntriesFrom(Citations(report.findings), 1)
              /\ Citations(report.findings) # << >> =>
                    report.sources = Citations(report.findings)
              /\ Citations(report.findings) = << >> =>
                    /\ AfterHeader(report.synthesis) = << >>
                    /\ report.sources \in { << << Lit("No valid sources found") >> >>,
                                            << << Lit("Error collecting sources") >> >> }

\* C12 witness: a report came back with an appended section of two entries, from
\* findings that repeat a source and hold an "@" source
C12_Witness ==
    /\ pc = "gr_returned"
    /\ SectionAppended(report.synthesis)
    /\ ~FromHandler(report)
    /\ Len(Citations(report.findings)) = 2
    /\ Len(AllPointSources(report.findings)) = 6
    /\ \E i \in 1..6 : StartsWith(AllPointSources(report.findings)[i], "@")

\* C13 as stated: the citation list generate_report computes is the reference
\* result that drops the sources starting with "@" and no other.
C13_CitationsDropOnlyAt ==
    (pc \in { "gr_except", "gr_returned" } \/ (pc = "gr_loop" /\ oi > Len(research_data))) =>
        ValidSources(sources) = CitationsFrom(AllPointSources(research_data), 1, FALSE)

\* C13 amended: the citation list generate_report computes is the reference
\* result: every source of the findings in traversal order, kept the first time
\* it is seen, without the sources that are empty or start with "@"; the Report
\* carries that list when it is not empty.
C13_CitationsFirstSeen ==
    (pc \in { "gr_except", "gr_returned" } \/ (pc = "gr_loop" /\ oi > Len(research_data))) =>
        /\ ValidSources(sources) = Citations(research_data)
        /\ (report.made /\ Citations(research_data) # << >>) =>
              report.sources = Citations(research_data)

\* C13 witness: a report came back whose findings hold an empty source and a
\* repeated one, with two citations
C13_Witness ==
    /\ pc = "gr_returned"
    /\ Len(report.sources) = 2
    /\ report.sources = Citations(research_data)
    /\ \E i \in 1..Len(AllPointSources(research_data)) :
          AllPointSources(research_data)[i] = << >>
    /\ Len(AllPointSources(research_data)) = 6

\* d[k] of a dict
DictGet(d, k) == d[CHOOSE i \in 1..Len(d) : d[i].key = k].val

\* The positions of the search terms that contain the objective
MatchingTerms(objective) ==
    { j \in 1..Len(search_terms) : IsSubstr(objective, search_terms[j]) }

\* The lists at the positions of S, joined in increasing order of position
RECURSIVE JoinInOrder(_, _)
JoinInOrder(S, lists) ==
    IF S = {} THEN << >>
    ELSE LET j == CHOOSE x \in S : \A y \in S : x <= y
         IN  lists[j] \o JoinInOrder(S \ { j }, lists)

\* C14: once the findings are aggregated, the findings of the subtask at index i
\* are the per-term result lists of the terms that contain its objective, joined
\* in term order; if no term contains it, the per-term list at index i when that
\* index exists, else the empty list.
C14_AggregatedFindings ==
    (caller = "pipeline" /\ "aggregation" \in stages) =>
        \A i \in 1..Len(subtasks) :
            DictGet(research_data, subtasks[i].objective) =
                IF MatchingTerms(subtasks[i].objective) # {}
                THEN JoinInOrder(MatchingTerms(subtasks[i].objective), all_findings_lists)
                ELSE IF i <= Len(all_findings_lists) THEN all_findings_lists[i]
                ELSE << >>

\* C14 witness: the findings are aggregated for a plan with an objective that two
\* terms contain, whose result lists differ, and an objective that no term contains
C14_Witness ==
    /\ caller = "pipeline" /\ "aggregation" \in stages
    /\ \E i \in 1..Len(subtasks) :
          /\ Cardinality(MatchingTerms(subtasks[i].objective)) = 2
          /\ \E j, k \in MatchingTerms(subtasks[i].objective) :
                all_findings_lists[j] # all_findings_lists[k]
    /\ \E i \in 1..Len(subtasks) :
          /\ MatchingTerms(subtasks[i].objective) = {}
          /\ DictGet(research_data, subtasks[i].objective) = all_findings_lists[i]
          /\ all_findings_lists[i] # << >>

\* How many times summarizer.run was called for the objective
SectionCallsFor(objective) ==
    Cardinality({ i \in 1..Len(section_calls) : section_calls[i].objective = objective })

\* C15: for every objective generate_report has processed, an empty data point
\* list means no section-generation call and the literal "No data found for this
\* objective." as section content; a non-empty list means exactly one call.  An
\* objective not yet processed has no call.
C15_SectionCallPerObjective ==
    pc \in { "gr_loop", "gr_except", "gr_returned" } =>
        \A k \in 1..Len(research_data) :
            IF k >= oi THEN SectionCallsFor(research_data[k].key) = 0
            ELSE IF research_data[k].val = << >>
            THEN /\ SectionCallsFor(research_data[k].key) = 0
                 /\ DictGet(subtask_content, research_data[k].key) =
                       << Lit("No data found for this objective.") >>
            ELSE SectionCallsFor(research_data[k].key) = 1

\* C15 witness: generate_report returned for findings with one empty and one
\* non-empty objective, after one section-generation call
C15_Witness ==
    /\ pc = "gr_returned"
    /\ Len(research_data) = 2
    /\ research_data[1].val = << >>
    /\ research_data[2].val # << >>
    /\ Len(section_calls) = 1
    /\ section_calls[1].objective = research_data[2].key

\* validate_report is about to run on the report in hand
AtValidate == pc \in { "validate_report", "gr_returned", "vr_returned" }

\* The test the claims state: synthesis empty or shorter than 2000 characters,
\* and at least one data point in the findings
MustRegenerate(rep) ==
    /\ rep.synthesis = << >> \/ StrLen(rep.synthesis) < 2 * MIN_REPORT_WORDS
    /\ \E k \in 1..Len(rep.findings) : Len(rep.findings[k].val) >= 1

\* C16: a validate_report call returns and raises nothing; applied to its own
\* output it returns that output, field by field; applied to a report whose
\* synthesis has 2000 characters or more it returns its input.
C16_ValidateIdempotent ==
    [][ AtValidate =>
           /\ pc' \in { "vr_returned", "vr_twice", "done" }
           /\ raised' = raised
           /\ pc = "vr_returned" => report' = report
           /\ StrLen(report.synthesis) >= 2 * MIN_REPORT_WORDS => report' = report ]_vars

\* C16 witness: validate_report ran twice on a report with findings that stays
\* shorter than 2000 characters after it is regenerated
C16_Witness ==
    /\ pc = "vr_twice"
    /\ MustRegenerate(report)
    /\ report.synthesis[1] = Lit("# Research Report: ")

\* C17: validate_report replaces the synthesis by a regenerated text exactly when
\* the synthesis is empty or shorter than 2000 characters and the findings hold
\* at least one data point; otherwise the report is returned as it was.  Topic,
\* findings and sources never change and no synthesis capability call is made.
C17_ReplacesOnlySynthesis ==
    [][ AtValidate =>
           /\ report'.topic = report.topic
           /\ report'.findings = report.findings
           /\ report'.sources = report.sources
           /\ IF MustRegenerate(report)
              THEN SubSeq(report'.synthesis, 1, 1 + Len(report.topic)) =
                      << Lit("# Research Report: ") >> \o report.topic
              ELSE report' = report
           /\ UNCHANGED << section_calls, compose_calls, result_data >> ]_vars

\* C17 witness: a short composed report with findings was replaced, and its
\* sources are the citations generate_report collected
C17_Witness ==
    /\ pc = "vr_returned"
    /\ StrLen(result_data) < 2 * MIN_REPORT_WORDS
    /\ ~HasWord(report.synthesis, "\n\n## References\n\n")
    /\ report.synthesis[1] = Lit("# Research Report: ")
    /\ report.sources = Citations(report.findings)
    /\ Len(report.sources) = 2

\* The positions of a word in a string, in increasing order, from position i on
RECURSIVE PositionsFrom(_, _, _)
PositionsFrom(str, word, i) ==
    IF i > Len(str) THEN << >>
    ELSE (IF str[i] = Lit(word) THEN << i >> ELSE << >>) \o PositionsFrom(str, word, i + 1)

\* The lines "- <source>\n" for a list of sources
RECURSIVE DashLines(_)
DashLines(srcs) ==
    IF srcs = << >> THEN << >>
    ELSE << Lit("- ") >> \o Head(srcs) \o << Lit("\n") >> \o DashLines(Tail(srcs))

\* text is the skeleton for topic t and findings: the header, one subsection per
\* objective in map order, then the references section
IsSkeleton(text, t, findings) ==
    LET heads == PositionsFrom(text, "## ", 1)
        refs == PositionsFrom(text, "## References\n\n", 1)
        blocks == PositionsFrom(text, "### Information from ", 1)
        nodata == PositionsFrom(text, "No data found for this objective.\n\n", 1)
        \* where subsection k ends
        end(k) == IF k < Len(heads) THEN heads[k + 1] ELSE refs[1]
        within(seq, k) == SelectSeq(seq, LAMBDA p : heads[k] < p /\ p < end(k))
    IN  /\ SubSeq(text, 1, Len(t) + 2) = << Lit("# Research Report: ") >> \o t \o << Lit("\n\n") >>
        /\ Len(refs) = 1
        /\ Len(heads) = Len(findings)
        /\ \A k \in 1..Len(heads) :
              /\ heads[k] < refs[1]
              /\ SubSeq(text, heads[k] + 1, heads[k] + Len(findings[k].key) + 1) =
                    findings[k].key \o << Lit("\n\n") >>
              /\ IF findings[k].val = << >>
                 THEN Len(within(nodata, k)) = 1 /\ Len(within(blocks, k)) = 0
                 ELSE /\ Len(within(nodata, k)) = 0
                      /\ Len(within(blocks, k)) = Len(findings[k].val)
                      /\ \A j \in 1..Len(findings[k].val) :
                            LET p == within(blocks, k)[j]
                                src == findings[k].val[j].source
                            IN  SubSeq(text, p + 1, p + Len(src) + 1) = src \o << Lit("\n\n") >>
        /\ SubSeq(text, refs[1] + 1, Len(text)) = DashLines(AllPointSources(findings))

\* C18: when validate_report regenerates the synthesis, the new text is the
\* header with the topic, one subsection per objective in map order ("No data
\* found" for an empty list, else one "Information from <source>" block per data
\* point), and a trailing references section with one entry per data point in
\* traversal order, repeated and "@" sources included.
C18_RegeneratedSkeleton ==
    [][ (AtValidate /\ MustRegenerate(report)) =>
           IsSkeleton(report'.synthesis, report.topic, report.findings) ]_vars

\* C18 witness: a report was regenerated from findings with a repeated source and
\* an "@" source, six reference entries in all
C18_Witness ==
    /\ pc = "vr_returned"
    /\ report.synthesis[1] = Lit("# Research Report: ")
    /\ Len(report.findings) = 2
    /\ Len(PositionsFrom(report.synthesis, "- ", 1)) = 6
    /\ Len(Citations(report.findings)) = 2
    /\ \E i \in 1..6 : StartsWith(AllPointSources(report.findings)[i], "@")

\* The position in queries of the term qlog is about: the term being processed,
\* or the one just finished when the loop of parallel_search has moved on
LoggedTerm == IF pc \in { "ps_loop", "returned" } THEN qi - 1 ELSE qi

\* Nothing of process_query_with_retry follows position p of qlog: no pacing
\* sleep, capability call or backoff sleep, only the sleep between terms
LoopEndedAt(p) == \A q \in (p + 1)..Len(qlog) : qlog[q].e = "inter"

\* C19: when an attempt for a term raised an error without "429" in its message,
\* nothing more is done for that term (no capability call, no backoff sleep) and
\* the term's result is exactly one error placeholder, at whatever attempt the
\* error came.
C19_OtherErrorEndsLoop ==
    caller = "direct" =>
        \A p \in 1..Len(qlog) :
            (qlog[p].e = "raise" /\ ~HasWord(qlog[p].v, "429")) =>
                /\ LoopEndedAt(p)
                /\ pc \in { "ps_sleep", "ps_loop", "returned" }
                /\ Len(all_results) = LoggedTerm
                /\ IsErrorPlaceholder(all_results[LoggedTerm], queries[LoggedTerm])
                /\ all_results[LoggedTerm][1].relevance_score = 1

\* C19 witness: the second attempt for a term, made after a "429" error and its
\* backoff, raised another error and the term got its result
C19_Witness ==
    /\ pc = "ps_sleep"
    /\ Len(Raises(qlog)) = 2
    /\ HasWord(Raises(qlog)[1], "429")
    /\ ~HasWord(Raises(qlog)[2], "429")
    /\ Last(qlog).e = "raise" /\ Last(qlog).a = 1
    /\ IsErrorPlaceholder(all_results[qi], queries[qi])

\* C20: when an attempt for a term returned no data point, the term's result is
\* exactly one no-results placeholder with relevance_score 0.1 (1 tenth), nothing
\* more is done for that term, and the placeholder's source is not the source of
\* the error placeholder for the same term.
C20_EmptyReturnPlaceholder ==
    caller = "direct" =>
        \A p \in 1..Len(qlog) :
            (qlog[p].e = "return" /\ qlog[p].v = << >>) =>
                /\ LoopEndedAt(p)
                /\ pc \in { "ps_sleep", "ps_loop", "returned" }
                /\ Len(all_results) = LoggedTerm
                /\ IsNoResultsPlaceholder(all_results[LoggedTerm], queries[LoggedTerm])
                /\ all_results[LoggedTerm][1].relevance_score = 1
                /\ all_results[LoggedTerm][1].source #
                      << Lit("https://example.com/error?q=") >> \o queries[LoggedTerm]

\* C20 witness: the second term's capability call returned no data point at its
\* first attempt and the term got its result
C20_Witness ==
    /\ pc = "ps_sleep"
    /\ qi = 2
    /\ Len(qlog) = 3
    /\ Last(qlog).e = "return" /\ Last(qlog).v = << >> /\ Last(qlog).a = 0
    /\ Len(all_results) = 2
    /\ Len(all_results[2]) = 1

\* How many events of kind e the log holds
CountEvents(log, e) == Cardinality({ p \in 1..Len(log) : log[p].e = e })

\* C21: when an attempt for a term returned a non-empty list of data points, the
\* term's result is exactly that list, every earlier attempt raised an error with
\* "429" in its message, and the backoff sleeps made for the term are as many as
\* the index of the attempt that returned.
C21_ResultAfterThrottling ==
    caller = "direct" =>
        \A p \in 1..Len(qlog) :
            (qlog[p].e = "return" /\ qlog[p].v # << >>) =>
                /\ LoopEndedAt(p)
                /\ Len(all_results) = LoggedTerm
                /\ all_results[LoggedTerm] = qlog[p].v
                /\ qlog[p].a <= max_retries
                /\ CountEvents(qlog, "backoff") = qlog[p].a
                /\ Len(Raises(qlog)) = qlog[p].a
                /\ \A k \in 1..Len(Raises(qlog)) : HasWord(Raises(qlog)[k], "429")

\* C21 witness: two attempts raised "429" errors and the third returned two data
\* points, which are the term's result
C21_Witness ==
    /\ pc = "ps_sleep"
    /\ Last(qlog).e = "return" /\ Last(qlog).a = 2
    /\ Len(Last(qlog).v) = 2
    /\ CountEvents(qlog, "backoff") = 2
    /\ all_results[qi] = Last(qlog).v

\* C22: in the retry loop of one term, every capability call comes right after a
\* pacing sleep of the same attempt, and the pacing delays grow with the attempt
\* index; a "429" error on an attempt below max_retries is followed by a backoff
\* sleep, then the pacing sleep and the call of the next attempt; a "429" error
\* on attempt max_retries is followed by no backoff sleep and no further attempt.
C22_PacingAndBackoffOrder ==
    \A p \in 1..Len(qlog) :
        /\ qlog[p].e = "call" =>
              /\ p > 1
              /\ qlog[p - 1].e = "pace" /\ qlog[p - 1].a = qlog[p].a
        /\ qlog[p].e = "pace" =>
              \A q \in 1..(p - 1) :
                  qlog[q].e = "pace" => (qlog[q].a < qlog[p].a /\ qlog[q].v < qlog[p].v)
        /\ (qlog[p].e = "raise" /\ HasWord(qlog[p].v, "429") /\ qlog[p].a < max_retries) =>
              /\ IF p = Len(qlog) THEN pc = "pq_backoff" ELSE qlog[p + 1].e = "backoff"
              /\ p + 1 = Len(qlog) => pc = "pq_pace"
              /\ p + 2 <= Len(qlog) =>
                    (qlog[p + 2].e = "pace" /\ qlog[p + 2].a = qlog[p].a + 1)
              /\ p + 2 = Len(qlog) => pc = "pq_call"
              /\ p + 3 <= Len(qlog) =>
                    (qlog[p + 3].e = "call" /\ qlog[p + 3].a = qlog[p].a + 1)
        /\ (qlog[p].e = "raise" /\ HasWord(qlog[p].v, "429") /\ qlog[p].a = max_retries) =>
              /\ LoopEndedAt(p)
              /\ pc \notin { "pq_pace", "pq_call", "pq_backoff" }

\* C22 witness: the first term was throttled on every attempt; five backoff
\* sleeps and six paced calls were made
C22_Witness ==
    /\ pc = "ps_sleep" /\ qi = 1
    /\ CountEvents(qlog, "call") = max_retries + 1
    /\ CountEvents(qlog, "pace") = max_retries + 1
    /\ CountEvents(qlog, "backoff") = max_retries
    /\ Last(qlog).e = "raise" /\ HasWord(Last(qlog).v, "429")

\* The retry loop of the current term is running
InRetryLoop(p) == p \in { "pq_pace", "pq_call", "pq_backoff" }

RECURSIVE RetryRun(_, _, _)
RetryRun(query, a, log) ==
    IF a > max_retries THEN [ok |-> TRUE, result |-> << >>, rest |-> log]
    ELSE IF log = << >> \/ Head(log).query # query \/ Head(log).a # a
    THEN [ok |-> FALSE, result |-> << >>, rest |-> log]
    ELSE IF Head(log).kind = "return"
    THEN [ok |-> TRUE,
          result |-> IF Head(log).v = << >> THEN << NoResultsPoint(query) >> ELSE Head(log).v,
          rest |-> Tail(log)]
    ELSE IF HasWord(Head(log).v, "429") /\ a < max_retries
    THEN RetryRun(query, a + 1, Tail(log))
    ELSE [ok |-> TRUE, result |-> << ErrorPoint(query) >>, rest |-> Tail(log)]

RECURSIVE SingleSearch(_, _)
SingleSearch(terms, log) ==
    IF terms = << >> THEN [ok |-> log = << >>, results |-> << >>]
    ELSE LET first == RetryRun(Head(terms), 0, log)
             others == SingleSearch(Tail(terms), first.rest)
         IN  [ok |-> first.ok /\ others.ok, results |-> << first.result >> \o others.results]

\* C24: when the batch loop is over, all_findings_lists holds one result per
\* search term, and one parallel_search over the whole term list, given the
\* same responses, makes the same calls in the same order and returns the same
\* list of results.
C24_BatchesAsOneSearch ==
    (caller = "batches" /\ pc = "collected") =>
        /\ Len(all_findings_lists) = Len(search_terms)
        /\ SingleSearch(search_terms, call_log).ok
        /\ SingleSearch(search_terms, call_log).results = all_findings_lists

\* C24 witness: four terms went through two batches, the second of one term;
\* the first term was throttled once and the last got a placeholder
C24_Witness ==
    /\ caller = "batches" /\ pc = "collected"
    /\ Len(search_terms) = MAX_BATCH_SIZE + 1
    /\ batch_i = 2 * MAX_BATCH_SIZE
    /\ Len(call_log) = Len(search_terms) + 1
    /\ call_log[1].kind = "raise" /\ call_log[2].kind = "return"
    /\ all_findings_lists[1] = << PointA, PointB >>
    /\ all_findings_lists[Len(search_terms)] = << NoResultsPoint(BatchTerm(Len(search_terms))) >>

\* The sources of an objective's data points that can be cited
CitableSources(data_points) ==
    { data_points[i].source : i \in { j \in 1..Len(data_points) :
          data_points[j].source # << >> /\ ~StartsWith(data_points[j].source, "@") } }

\* C25: when the section-generation call of an objective raised, the objective's
\* section content is "Error processing content: " followed by the message; the
\* loop goes on, so that when generate_report is past the composition call every
\* objective has a section content and exactly one composition call was made;
\* the returned report's sources hold every citable source of the objective
\* whose call raised.
C25_SectionErrorIsolated ==
    \A i \in 1..Len(section_calls) :
        section_calls[i].kind = "raise" =>
            /\ DictGet(subtask_content, section_calls[i].objective) =
                  << Lit("Error processing content: ") >> \o section_calls[i].v
            /\ pc = "gr_loop" => compose_calls = 0
            /\ pc \in { "gr_except", "gr_returned" } =>
                  /\ compose_calls = 1
                  /\ oi = Len(research_data) + 1
                  /\ \A k \in 1..Len(research_data) :
                        DictHas(subtask_content, research_data[k].key)
            /\ pc = "gr_returned" =>
                  \A src \in CitableSources(DictGet(research_data, section_calls[i].objective)) :
                      InSeq(src, report.sources)

\* C25 witness: of two objectives the first one's section call raised and the
\* second one's returned; the report was composed and cites the first one's source
C25_Witness ==
    /\ pc = "gr_returned" /\ caller = "direct"
    /\ Len(research_data) = 2 /\ Len(section_calls) = 2
    /\ section_calls[1].kind = "raise" /\ section_calls[2].kind = "return"
    /\ research_data[1].val = << PointA, PointB, PointA >>
    /\ compose_calls = 1
    /\ InSeq(PointB.source, report.sources)
    /\ DictGet(subtask_content, research_data[2].key) \in SectionTexts

\* C26: for every item web_search has processed, the item's dict is in the
\* results with the item's link as source; its content differs from the snippet
\* only if the page fetch succeeded and gave a text longer than the snippet,
\* which is then the content; and when the page fetch failed (status other than
\* 200, timeout, redirect loop, request error, any other error) the content is
\* the snippet.
C26_SnippetKeptOnFetchFailure ==
    pc \in { "ws_loop", "ws_returned" } =>
        /\ Len(results) >= Len(fetched)
        /\ pc = "ws_returned" /\ fetched # << >> => Len(results) = Len(hits)
        /\ \A k \in 1..Len(fetched) :
              /\ results[k].source = ItemGet(hits[k], "link", << >>)
              /\ fetched[k].kind # "ok" => results[k].content = Snippet(hits[k])
              /\ results[k].content # Snippet(hits[k]) =>
                    /\ fetched[k].kind = "ok"
                    /\ results[k].content =
                          FetchReturn(ItemGet(hits[k], "link", << >>), fetched[k])
                    /\ StrLen(results[k].content) > StrLen(Snippet(hits[k]))

\* C27: under main() every step either is a step of research_pipeline as it
\* runs without the indicator, or leaves every variable of the pipeline as it
\* is; a step of the indicator changes nothing but its own counter; when main()
\* is done with the pipeline, on the success path and on the failure path, the
\* indicator is cancelled, and a cancelled indicator makes no further iteration.
C27_IndicatorApart ==
    [][ /\ Next \/ UNCHANGED pipeline_vars
        /\ frame' # frame =>
              (progress = "running" /\ UNCHANGED << pipeline_vars, main_pc, progress >>)
        /\ main_pc' # "awaiting" =>
              (pc' \in { "done", "raised" } /\ progress' \in { "cancelled", "ended" })
        /\ progress # "running" => (progress' # "running" /\ frame' = frame)
      ]_vars

\* C27 witness: the pipeline returned a report while the indicator made three
\* iterations; main() cancelled the indicator, which ended
C27_Witness ==
    /\ caller = "main" /\ main_pc = "finished" /\ pc = "done"
    /\ report.made
    /\ frame = 3
    /\ progress = "ended"

\* C27, failure path: the planning error reached main() after the indicator
\* had made an iteration, and the indicator is cancelled
C27_WitnessFailure ==
    /\ caller = "main" /\ main_pc = "failed" /\ pc = "raised"
    /\ raised.stage = "planning"
    /\ frame = 1
    /\ progress = "cancelled"

\* The retry loop of a term is over: its result is recorded, or an exception left it
RetrievalOver == pc \in { "ps_sleep", "raised" }

\* C28: the retry loop of every term eventually ends, and research_pipeline
\* eventually either raises the planning error or returns a report.
C28_PipelineEnds ==
    /\ (pc = "pq_pace" /\ attempt = 0) ~> RetrievalOver
    /\ <>(pc = "done" \/ (pc = "raised" /\ raised.stage = "planning"))

\* C29: the findings of the report research_pipeline holds or returns are the
\* findings map the aggregation built from the subtasks, the search terms and
\* the per-term results, key for key and data point for data point, after
\* generate_report (either path) and after validate_report.
C29_FindingsUntouched ==
    (caller = "pipeline" /\ report.made) =>
        /\ report.findings = research_data
        /\ report.findings =
              FindingsDict(subtasks, search_terms, all_findings_lists, Len(subtasks))
        /\ \A i \in 1..Len(subtasks) :
              DictGet(report.findings, subtasks[i].objective) =
                  IF MatchingTerms(subtasks[i].objective) # {}
                  THEN JoinInOrder(MatchingTerms(subtasks[i].objective), all_findings_lists)
                  ELSE all_findings_lists[i]

\* C29 witness: research_pipeline returned the report of generate_report's
\* exception path, its synthesis regenerated by validate_report, with findings
\* for three objectives
C29_Witness ==
    /\ caller = "pipeline" /\ pc = "done"
    /\ exc # << >>
    /\ report.made
    /\ report.synthesis = MinimalSynthesis(report.topic, report.findings)
    /\ Len(report.findings) = 3
    /\ TotalPoints(report.findings) >= 4

\* C30: in research_pipeline the search terms are at least as many as the
\* subtasks and each begins with the topic; every per-term result is non-empty
\* and, once the batches are over, there is one per term; so every objective of
\* the findings map has a non-empty list of data points, generate_report makes
\* a section call for every objective it processes and no section content is
\* "No data found for this objective.".
C30_NoEmptyObjective ==
    caller = "pipeline" =>
        /\ "terms" \in stages =>
              /\ Len(search_terms) >= Len(subtasks)
              /\ \A j \in 1..Len(search_terms) :
                    /\ Len(search_terms[j]) > Len(topic)
                    /\ SubSeq(search_terms[j], 1, Len(topic)) = topic
        /\ \A j \in 1..Len(all_findings_lists) : all_findings_lists[j] # << >>
        /\ \A j \in 1..Len(all_results) : all_results[j] # << >>
        /\ "aggregation" \in stages =>
              /\ Len(all_findings_lists) = Len(search_terms)
              /\ \A k \in 1..Len(research_data) : research_data[k].val # << >>
              /\ \A i \in 1..Len(subtasks) : DictHas(research_data, subtasks[i].objective)
              /\ pc \in { "gr_loop", "gr_except", "validate_report", "done" } =>
                    Len(section_calls) = oi - 1
              /\ \A k \in 1..Len(subtask_content) :
                    subtask_content[k].val # << Lit("No data found for this objective.") >>

\* C30 witness: generate_report returned in a pipeline of three subtasks and
\* three terms, none of which contains the third objective; every retrieval
\* ended with a placeholder, the third objective has the third term's, and
\* every objective got its section call
C30_Witness ==
    /\ caller = "pipeline" /\ pc = "validate_report"
    /\ Len(subtasks) = 3 /\ Len(search_terms) = 3
    /\ MatchingTerms(subtasks[3].objective) = {}
    /\ \A j \in 1..3 : all_findings_lists[j] = << ErrorPoint(search_terms[j]) >>
    /\ research_data[3].val = << ErrorPoint(search_terms[3]) >>
    /\ Len(section_calls) = 3

====
